---- MODULE Spec2Model ----
(***************************************************************************)
(* Verification model of the embedding server.                             *)
(*                                                                         *)
(*   SpecInfer : the embed path - run_embed handler, admission permits,    *)
(*               tokenization, the batch queue, the backend consumer.      *)
(*   SpecCron  : the persistent cron registry (ChronJobs / JobsCache).     *)
(***************************************************************************)
EXTENDS Integers, Sequences, FiniteSets, TLC

(***************************************************************************)
(* Bounds of the model.                                                    *)
(***************************************************************************)
NReq == 2              \* client requests that can be issued
MaxItems == 2          \* max_client_batch_size of the enumerated configurations
MaxEmbeds == 3         \* embed_pooled calls over a run
MaxText == 2           \* longest raw text, in tokens
MaxInputLength == 2    \* max_input_length of the loaded model
MaxForwardErrs == 1    \* forward passes that may fail
MaxDisconnects == 1    \* client disconnects
MaxBatchTokens == 4    \* largest max_batch_tokens that is enumerated
MaxJobs == 3           \* add_job calls (uuids that can be drawn)
MaxRestarts == 2       \* process restarts of the scheduler
MaxRuns == 2           \* job invocations in flight at once
NCallers == 2          \* tasks calling JobsCache at the same time
MaxCalls == 3          \* JobsCache calls over a run
NKeys == 3             \* object keys that can be in the bucket
PageSize == 2          \* keys one list_objects_v2 response holds (1000 in S3)
NRunners == 2          \* sync_s3_files invocations that can overlap
MaxSyncRuns == 3       \* sync_s3_files runs over a behaviour
MaxFaults == 1         \* database, presign and embedder calls that fail
MaxTicks == 2          \* process_new_files runs over a behaviour
MaxChunks == 2         \* chunks the text of one document splits into
MaxDoc == 4            \* characters of a text handed to the chunker
MaxMaxTokens == 4      \* largest max_tokens handed to the chunker
MaxArchs == 2          \* entries of architectures in config.json
MaxLabels == 2         \* entries of id2label
MaxTokenId == 2        \* token ids an encoding draws from
MaxEncLen == 2         \* tokens of one encoding
MaxTexts == 3          \* texts of one Embeddings::embed call
UsizeBits == 3         \* bits of a usize in the model of run's arithmetic
MaxPositions == 5      \* largest max_position_embeddings of a config.json
MaxPadTokenId == 2     \* largest pad_token_id of a config.json
MaxSeqLength == 2      \* largest max_seq_length of a sentence-transformers config
MaxStartJobs == 1      \* jobs in the file when start is called
MaxTasks == 4          \* ChronJobs calls over a run

(***************************************************************************)
(* Option<T>                                                               *)
(***************************************************************************)
None == [some |-> FALSE, val |-> 0]
Some(x) == [some |-> TRUE, val |-> x]

NoName == [some |-> FALSE, val |-> ""]
SomeName(s) == [some |-> TRUE, val |-> s]

\* Option::or
OptionOr(a, b) == IF a.some THEN a ELSE b

Max(a, b) == IF a >= b THEN a ELSE b
Min(a, b) == IF a <= b THEN a ELSE b

RECURSIVE SumSeq(_)
SumSeq(s) == IF s = <<>> THEN 0 ELSE Head(s) + SumSeq(Tail(s))

Range(s) == {s[k] : k \in 1..Len(s)}

VARIABLES
    \* ---- embed path ----
    cfg,          \* arguments of ai::run (fixed after start-up)
    permits,      \* free permits of the admission semaphore
    req,          \* per client request: handler position and payload
    resp,         \* per client request: the response sent to the client
    ipc,          \* per item (request, index): position of its embed_pooled future
    ires,         \* per item: result its future returned
    chan,         \* per item: content of its one-shot response channel
    sends,        \* per item: number of messages written to its channel
    queue,        \* the batch queue, FIFO of entries
    enq_counter,  \* monotonic insertion counter of the queue
    inflight,     \* the batch the backend is working on (<<>> when idle)
    prev_batch,   \* first and last insertion number of the last completed batch
    forward_errs, \* number of forward passes that failed
    \* ---- scheduler ----
    jobs,         \* JobsCache.jobs : uuid -> (job_type, cron), as a set of records
    jobs_file,    \* content of jobs.json
    sched_jobs,   \* job ids registered in the cron runner (JobScheduler)
    sched_started,\* the cron runner has been started
    next_uuid,    \* uuids drawn so far
    last_add,     \* outcome of the last add_job
    started,      \* outcome of start() of the current process ("none" before)
    restarts,     \* process restarts so far
    remove_ret,   \* what the latest call returned, when it was a remove_job
    \* ---- job invocations ----
    inv,          \* per job id: invocations spawned by the cron runner, not finished
    \* ---- JobsCache calls, step by step ----
    call,         \* per calling task: position inside JobsCache::add_job / remove_job
    lock,         \* owner of the JobsCache.jobs mutex (0: free)
    writing,      \* jobs.json has been truncated by a write that is not complete
    boot,         \* what the process that followed a stop found in jobs.json
    ncalls,       \* JobsCache calls made so far
    \* ---- reconciliation of the file catalog ----
    store,        \* object keys in the bucket
    schema,       \* whether the files table rejects a second row of a filename
    catalog,      \* rows of the files table
    next_file_id, \* file ids handed out by the database so far
    sync,         \* per sync_s3_files invocation: position and locals
    nsync,        \* sync_s3_files runs started so far
    settled,      \* number of the first run that completed Ok with no other run active
    \* ---- ingestion of unprocessed files ----
    chunks,       \* rows of the file_chunks table
    proc,         \* the process_new_files invocation: position and locals
    faults,       \* calls that failed for an outside cause so far
    nticks,       \* process_new_files runs started so far
    \* ---- chunker ----
    split_in,     \* text and max_tokens handed to split_markdown_into_chunks
    split_out,    \* the chunks it returned
    \* ---- model load ----
    model_in,     \* config.json, 1_Pooling/config.json and the pooling override
    model_out,    \* what get_backend_model_type returned
    \* ---- ingestion embedder ----
    pool_in,      \* the encodings handed to Embeddings::embed
    pool_out,     \* the vectors it returned
    \* ---- model limits ----
    pos_in,       \* config.json and the sentence-transformers config handed to run
    pos_out,      \* position_offset and max_input_length as run computed them
    \* ---- the two mutexes of ChronJobs ----
    task,         \* per caller: the ChronJobs call it is in and how far it got
    mutex,        \* per mutex: the caller that holds its guard (0: free)
    ntasks        \* ChronJobs calls made so far

infer_vars == <<cfg, permits, req, resp, ipc, ires, chan, sends, queue,
                enq_counter, inflight, prev_batch, forward_errs>>
cron_vars == <<jobs, jobs_file, sched_jobs, sched_started, next_uuid,
               last_add, started, restarts, remove_ret>>
run_vars == <<inv>>
lock_vars == <<call, lock, writing, boot, ncalls>>
sync_vars == <<store, schema, catalog, next_file_id, sync, nsync, settled>>
ingest_vars == <<chunks, proc, faults, nticks>>
chunk_vars == <<split_in, split_out>>
load_vars == <<model_in, model_out>>
pool_vars == <<pool_in, pool_out>>
pos_vars == <<pos_in, pos_out>>
mutex_vars == <<task, mutex, ntasks>>
late_vars == <<pool_vars, pos_vars, mutex_vars>>
more_vars == <<chunk_vars, load_vars, late_vars>>
ext_vars == <<run_vars, lock_vars, sync_vars, ingest_vars, more_vars>>
rest_vars == <<cron_vars, ext_vars>>
vars == <<infer_vars, cron_vars, ext_vars>>

(***************************************************************************)
(* Embed path: configuration (ai::run and its callers)                     *)
(***************************************************************************)
Req == 1..NReq
Items == Req \X (1..MaxItems)

\* The prompts of config_sentence_transformers.json: name -> prefix tokens
Prompts == [query |-> <<91>>]

NoPrompt == [some |-> FALSE, tokens |-> <<>>]

Config(mcr, mbt, mbr, cap, dpn) ==
    [max_concurrent_requests |-> mcr,
     max_batch_tokens |-> mbt,
     max_batch_requests |-> mbr,
     backend_max_batch_size |-> cap,
     max_client_batch_size |-> MaxItems,
     max_input_length |-> MaxInputLength,
     default_prompt |-> NoPrompt,
     default_prompt_name |-> dpn,
     prompts |-> Prompts]

\* The argument combinations of ai::run that are enumerated.
\* max_input_length is what run() derives from the model's artifacts.
Configs ==
    { Config(3, MaxInputLength, None, None, NoName),
      Config(3, MaxBatchTokens, Some(2), None, SomeName("query")),
      Config(2, MaxBatchTokens, Some(1), Some(2), NoName),
      Config(1, MaxInputLength - 1, None, None, NoName) }

\* ai::run, lines 262-268: the limit handed to the queue
RunMaxBatchRequests(c) == OptionOr(c.backend_max_batch_size, c.max_batch_requests)

\* Queue::new(padded_model, max_batch_tokens, max_batch_requests, max_concurrent_requests)
QueueNew(padded_model, max_batch_tokens, max_batch_requests, max_concurrent_requests) ==
    [padded_model |-> padded_model,
     max_batch_tokens |-> max_batch_tokens,
     max_batch_requests |-> max_batch_requests,
     capacity |-> max_concurrent_requests]

\* ai::run, lines 270-276
RunQueue(c) ==
    QueueNew(TRUE, c.max_batch_tokens, RunMaxBatchRequests(c), c.max_concurrent_requests)

\* ai::run, lines 185-207: default_prompt_name is looked up in the prompts,
\* an unknown name resolves to no prompt; else the literal default_prompt
RunDefaultPrompt(c) ==
    IF c.default_prompt_name.some
    THEN IF c.default_prompt_name.val \in DOMAIN c.prompts
         THEN [some |-> TRUE, tokens |-> c.prompts[c.default_prompt_name.val]]
         ELSE [some |-> FALSE, tokens |-> <<>>]
    ELSE c.default_prompt

\* Tokenization::new(workers, tokenizer, max_input_length, position_offset,
\*                   default_prompt, prompts)
TokenizationNew(max_input_length, default_prompt, prompts) ==
    [max_input_length |-> max_input_length,
     default_prompt |-> default_prompt,
     prompts |-> prompts]

RunTokenizationBatchTokens(c) ==
    TokenizationNew(c.max_batch_tokens, RunDefaultPrompt(c), c.prompts)

\* ai::run, lines 209-217
RunTokenization(c) == TokenizationNew(c.max_input_length, RunDefaultPrompt(c), c.prompts)

\* Infer::new(tokenization, queue, max_concurrent_requests, backend):
\* the semaphore starts with max_concurrent_requests permits
InferNew(tokenization, q, max_concurrent_requests) ==
    [tokenization |-> tokenization, queue |-> q, permits |-> max_concurrent_requests]

RunInferSwapped(c) == InferNew(RunTokenization(c), RunQueue(c), c.max_batch_tokens)

\* ai::run, line 279
RunInfer(c) == InferNew(RunTokenization(c), RunQueue(c), c.max_concurrent_requests)

(***************************************************************************)
(* Tokenization (worker pool)                                              *)
(***************************************************************************)
Texts == 1..MaxText          \* a text is named by its token count (0 is "")
Directions == {"Right"}       \* truncation_direction of the enumerated requests

\* tokenizer.encode: text t yields t tokens, distinct per text and position
Encode(t) == [k \in 1..t |-> 10 * t + k]

\* truncation keeps the last (Left) or the first (Right) max tokens
TruncateIds(ids, max, direction) ==
    IF direction = "Left"
    THEN SubSeq(ids, Len(ids) - max + 1, Len(ids))
    ELSE SubSeq(ids, 1, max)

\* tokenize(input, truncate, direction, prompt_name)
Tokenize(text, truncate, direction, prompt_name, tk) ==
    IF text = 0 THEN [err |-> "EmptyInput", input_ids |-> <<>>]
    ELSE IF prompt_name.some /\ prompt_name.val \notin DOMAIN tk.prompts
    THEN [err |-> "InvalidPrompt", input_ids |-> <<>>]
    ELSE LET prefix == IF prompt_name.some THEN tk.prompts[prompt_name.val]
                       ELSE IF tk.default_prompt.some THEN tk.default_prompt.tokens
                       ELSE <<>>
             ids == prefix \o Encode(text)
         IN  IF Len(ids) <= tk.max_input_length
             THEN [err |-> "", input_ids |-> ids]
             ELSE IF truncate
             THEN [err |-> "",
                   input_ids |-> TruncateIds(ids, tk.max_input_length, direction)]
             ELSE [err |-> "TooLong", input_ids |-> <<>>]

(***************************************************************************)
(* Batch queue and backend                                                 *)
(***************************************************************************)
RECURSIVE FillSkipping(_, _, _, _, _)
FillSkipping(q, batch, lmax, closed, qc) ==
    IF q = <<>> THEN [batch |-> batch, rest |-> q]
    ELSE LET e == Head(q) IN
         IF e.id \in closed THEN FillSkipping(Tail(q), batch, lmax, closed, qc)
         ELSE IF batch = <<>>
         THEN FillSkipping(Tail(q), <<e>>, Len(e.input_ids), closed, qc)
         ELSE LET l2 == Max(lmax, Len(e.input_ids))
                  n2 == Len(batch) + 1
              IN  IF /\ l2 * n2 <= qc.max_batch_tokens
                     /\ (qc.max_batch_requests.some => n2 <= qc.max_batch_requests.val)
                  THEN FillSkipping(Tail(q), Append(batch, e), l2, closed, qc)
                  ELSE LET later == FillSkipping(Tail(q), batch, lmax, closed, qc)
                       IN  [batch |-> later.batch, rest |-> <<e>> \o later.rest]

RECURSIVE FillKeepingClosed(_, _, _, _, _)
FillKeepingClosed(q, batch, lmax, closed, qc) ==
    IF q = <<>> THEN [batch |-> batch, rest |-> q]
    ELSE LET e == Head(q) IN
         IF batch = <<>>
         THEN FillKeepingClosed(Tail(q), <<e>>, Len(e.input_ids), closed, qc)
         ELSE LET l2 == Max(lmax, Len(e.input_ids))
                  n2 == Len(batch) + 1
              IN  IF /\ l2 * n2 <= qc.max_batch_tokens
                     /\ (qc.max_batch_requests.some => n2 <= qc.max_batch_requests.val)
                  THEN FillKeepingClosed(Tail(q), Append(batch, e), l2, closed, qc)
                  ELSE [batch |-> batch, rest |-> q]

\* the batcher: first live entry starts the batch, then entries are taken
\* from the front while they fit; entries whose receiver is gone are dropped
RECURSIVE Fill(_, _, _, _, _)
Fill(q, batch, lmax, closed, qc) ==
    IF q = <<>> THEN [batch |-> batch, rest |-> q]
    ELSE LET e == Head(q) IN
         IF e.id \in closed THEN Fill(Tail(q), batch, lmax, closed, qc)
         ELSE IF batch = <<>>
         THEN Fill(Tail(q), <<e>>, Len(e.input_ids), closed, qc)
         ELSE LET l2 == Max(lmax, Len(e.input_ids))
                  n2 == Len(batch) + 1
              IN  IF /\ l2 * n2 <= qc.max_batch_tokens
                     /\ (qc.max_batch_requests.some => n2 <= qc.max_batch_requests.val)
                  THEN Fill(Tail(q), Append(batch, e), l2, closed, qc)
                  ELSE [batch |-> batch, rest |-> q]

NextBatch(q, closed, qc) == Fill(q, <<>>, 0, closed, qc)

BatchMaxLen(batch) ==
    IF batch = <<>> THEN 0
    ELSE CHOOSE m \in {Len(batch[k].input_ids) : k \in 1..Len(batch)} :
            \A k \in 1..Len(batch) : Len(batch[k].input_ids) <= m

\* PaddedBatch: rows right-padded with 0 to the longest entry
PadRow(ids, lmax) == [j \in 1..lmax |-> IF j <= Len(ids) THEN ids[j] ELSE 0]
MaskRow(ids, lmax) == [j \in 1..lmax |-> IF j <= Len(ids) THEN 1 ELSE 0]
PaddedBatch(batch) ==
    LET lmax == BatchMaxLen(batch) IN
    [input_ids |-> [k \in 1..Len(batch) |-> PadRow(batch[k].input_ids, lmax)],
     attention_mask |-> [k \in 1..Len(batch) |-> MaskRow(batch[k].input_ids, lmax)]]

\* forward pass + pooling: one value per row, the mask-weighted sum of the row
PoolRowValue(row, mask) == SumSeq([j \in 1..Len(row) |-> row[j] * mask[j]])
BackendEmbed(pb) ==
    [k \in 1..Len(pb.input_ids) |-> PoolRowValue(pb.input_ids[k], pb.attention_mask[k])]

ResultForReversed(results, k) == results[Len(results) - k + 1]

\* the dispatcher writes results back by position inside the batch
ResultFor(results, k) == results[k]

\* what an embed_pooled future returns: the embedding or the error; seq stands
\* for the metadata of the response (the entry's place in the queue's history)
NoMsg == [kind |-> "empty", emb |-> 0, seq |-> 0]
OkMsg(v, seq) == [kind |-> "ok", emb |-> v, seq |-> seq]
ErrMsg(kind) == [kind |-> kind, emb |-> 0, seq |-> 0]

(***************************************************************************)
(* Items: the embed_pooled futures of a request                            *)
(***************************************************************************)
ItemsOf(r) == {<<r, k>> : k \in 1..Len(req[r].inputs)}
HoldsPermit(i) == ipc[i] \in {"tokenizing", "awaiting"}
Finished(i) == ipc[i] \in {"ok", "err"}
Closed == {i \in Items : ipc[i] = "dropped"}
Embeds == Cardinality({i \in Items : ipc[i] # "none"})

NoReq == [pc |-> "idle", kind |-> "none", inputs |-> <<>>, truncate |-> FALSE,
          direction |-> "Right"]
NoResp == [kind |-> "none", embeddings |-> <<>>]

(***************************************************************************)
(* run_embed: the /embed handler                                           *)
(***************************************************************************)
RunEmbedSingleWaiting(r) ==
    /\ req[r].pc = "idle"
    /\ Embeds < MaxEmbeds
    /\ \E text \in Texts, truncate \in BOOLEAN, direction \in Directions :
          /\ req' = [req EXCEPT ![r] = [pc |-> "running", kind |-> "single",
                                        inputs |-> <<text>>, truncate |-> truncate,
                                        direction |-> direction]]
          /\ ipc' = [ipc EXCEPT ![<<r, 1>>] = "wait_permit"]
    /\ UNCHANGED <<cfg, permits, resp, ires, chan, sends, queue, enq_counter, inflight,
                   prev_batch, forward_errs, rest_vars>>

\* Input::Single: try_acquire_permit, then embed_pooled with the permit
RunEmbedSingle(r) ==
    /\ req[r].pc = "idle"
    /\ \E text \in Texts, truncate \in BOOLEAN, direction \in Directions :
          IF permits = 0
          THEN \* try_acquire_permit fails: the handler returns the error
               /\ req' = [req EXCEPT ![r] = [NoReq EXCEPT !.pc = "responded",
                                                          !.kind = "single"]]
               /\ resp' = [resp EXCEPT ![r] = [kind |-> "Overloaded", embeddings |-> <<>>]]
               /\ UNCHANGED <<permits, ipc>>
          ELSE /\ Embeds < MaxEmbeds
               /\ permits' = permits - 1
               /\ req' = [req EXCEPT ![r] = [pc |-> "running", kind |-> "single",
                                             inputs |-> <<text>>, truncate |-> truncate,
                                             direction |-> direction]]
               /\ ipc' = [ipc EXCEPT ![<<r, 1>>] = "tokenizing"]
               /\ UNCHANGED resp
    /\ UNCHANGED <<cfg, ires, chan, sends, queue, enq_counter, inflight, prev_batch,
                   forward_errs, rest_vars>>

\* Input::Batch: validation, then one future per input, each waiting for a permit
RunEmbedBatch(r) ==
    /\ req[r].pc = "idle"
    /\ \E n \in 0..(MaxItems + 1) :
          IF n = 0
          THEN /\ req' = [req EXCEPT ![r] = [NoReq EXCEPT !.pc = "responded",
                                                          !.kind = "batch"]]
               /\ resp' = [resp EXCEPT ![r] = [kind |-> "EmptyBatch", embeddings |-> <<>>]]
               /\ UNCHANGED ipc
          ELSE IF n > cfg.max_client_batch_size
          THEN /\ req' = [req EXCEPT ![r] = [NoReq EXCEPT !.pc = "responded",
                                                          !.kind = "batch"]]
               /\ resp' = [resp EXCEPT ![r] = [kind |-> "BatchTooLarge", embeddings |-> <<>>]]
               /\ UNCHANGED ipc
          ELSE \E inputs \in [1..n -> Texts], truncate \in BOOLEAN,
                  direction \in Directions :
               /\ Embeds + n <= MaxEmbeds
               /\ req' = [req EXCEPT ![r] = [pc |-> "running", kind |-> "batch",
                                             inputs |-> inputs, truncate |-> truncate,
                                             direction |-> direction]]
               /\ ipc' = [i \in Items |->
                              IF i[1] = r /\ i[2] <= n THEN "wait_permit" ELSE ipc[i]]
               /\ UNCHANGED resp
    /\ UNCHANGED <<cfg, permits, ires, chan, sends, queue, enq_counter, inflight,
                   prev_batch, forward_errs, rest_vars>>

\* an acquisition that needs a permit for every item of the request at once
ItemAcquireAll(i) ==
    /\ ipc[i] = "wait_permit"
    /\ permits >= Len(req[i[1]].inputs)
    /\ permits' = permits - 1
    /\ ipc' = [ipc EXCEPT ![i] = "tokenizing"]
    /\ UNCHANGED <<cfg, req, resp, ires, chan, sends, queue, enq_counter, inflight,
                   prev_batch, forward_errs, rest_vars>>

\* acquire_permit().await of one batch item
ItemAcquire(i) ==
    /\ ipc[i] = "wait_permit"
    /\ permits > 0
    /\ permits' = permits - 1
    /\ ipc' = [ipc EXCEPT ![i] = "tokenizing"]
    /\ UNCHANGED <<cfg, req, resp, ires, chan, sends, queue, enq_counter, inflight,
                   prev_batch, forward_errs, rest_vars>>

\* embed_pooled, steps 1 and 2: the tokenizer pool answers, the entry is enqueued
ItemTokenized(i) ==
    /\ ipc[i] = "tokenizing"
    /\ LET infer == RunInfer(cfg)
           r == i[1]
           enc == Tokenize(req[r].inputs[i[2]], req[r].truncate, req[r].direction,
                           NoName, infer.tokenization)
       IN  IF enc.err # ""
           THEN /\ ipc' = [ipc EXCEPT ![i] = "err"]
                /\ ires' = [ires EXCEPT ![i] = ErrMsg(enc.err)]
                /\ permits' = permits + 1
                /\ UNCHANGED <<queue, enq_counter>>
           ELSE IF Len(queue) >= infer.queue.capacity
           THEN /\ ipc' = [ipc EXCEPT ![i] = "err"]
                /\ ires' = [ires EXCEPT ![i] = ErrMsg("QueueFull")]
                /\ permits' = permits + 1
                /\ UNCHANGED <<queue, enq_counter>>
           ELSE /\ ipc' = [ipc EXCEPT ![i] = "awaiting"]
                /\ queue' = Append(queue, [id |-> i, seq |-> enq_counter + 1,
                                           input_ids |-> enc.input_ids])
                /\ enq_counter' = enq_counter + 1
                /\ UNCHANGED <<ires, permits>>
    /\ UNCHANGED <<cfg, req, resp, chan, sends, inflight, prev_batch,
                   forward_errs, rest_vars>>

\* the batcher task: builds the next batch and hands it to the backend
BatcherDispatch ==
    /\ inflight = <<>>
    /\ queue # <<>>
    /\ LET nb == NextBatch(queue, Closed, RunInfer(cfg).queue) IN
       /\ queue' = nb.rest
       /\ inflight' = nb.batch
       /\ UNCHANGED <<cfg, permits, req, resp, ipc, ires, chan, sends, enq_counter,
                   prev_batch, forward_errs, rest_vars>>

BackendCompleteFirstOnly ==
    /\ inflight # <<>>
    /\ \E ok \in (IF forward_errs < MaxForwardErrs THEN BOOLEAN ELSE {TRUE}) :
          LET results == BackendEmbed(PaddedBatch(inflight))
              msg(k) == IF ok THEN OkMsg(ResultFor(results, k), inflight[k].seq)
                        ELSE ErrMsg("InferenceFailure")
              pos(i) == CHOOSE k \in 1..Len(inflight) : inflight[k].id = i
              live == IF ok THEN {inflight[k].id : k \in 1..Len(inflight)} \ Closed
                      ELSE {inflight[1].id} \ Closed
          IN  /\ chan' = [i \in Items |-> IF i \in live THEN msg(pos(i)) ELSE chan[i]]
              /\ sends' = [i \in Items |-> IF i \in live THEN sends[i] + 1 ELSE sends[i]]
              /\ forward_errs' = IF ok THEN forward_errs ELSE forward_errs + 1
    /\ prev_batch' = [first |-> inflight[1].seq, last |-> inflight[Len(inflight)].seq]
    /\ inflight' = <<>>
    /\ UNCHANGED <<cfg, permits, req, resp, ipc, ires, queue, enq_counter,
                   rest_vars>>

\* the backend finishes the forward pass; results go back by batch position
BackendComplete ==
    /\ inflight # <<>>
    /\ \E ok \in (IF forward_errs < MaxForwardErrs THEN BOOLEAN ELSE {TRUE}) :
          LET results == BackendEmbed(PaddedBatch(inflight))
              msg(k) == IF ok THEN OkMsg(ResultFor(results, k), inflight[k].seq)
                        ELSE ErrMsg("InferenceFailure")
              pos(i) == CHOOSE k \in 1..Len(inflight) : inflight[k].id = i
              live == {inflight[k].id : k \in 1..Len(inflight)} \ Closed
          IN  /\ chan' = [i \in Items |-> IF i \in live THEN msg(pos(i)) ELSE chan[i]]
              /\ sends' = [i \in Items |-> IF i \in live THEN sends[i] + 1 ELSE sends[i]]
              /\ forward_errs' = IF ok THEN forward_errs ELSE forward_errs + 1
    /\ prev_batch' = [first |-> inflight[1].seq, last |-> inflight[Len(inflight)].seq]
    /\ inflight' = <<>>
    /\ UNCHANGED <<cfg, permits, req, resp, ipc, ires, queue, enq_counter,
                   rest_vars>>

\* embed_pooled, steps 3 and 4: the response arrives, the future returns and
\* drops its permit
ItemReceive(i) ==
    /\ ipc[i] = "awaiting"
    /\ chan[i] # NoMsg
    /\ ires' = [ires EXCEPT ![i] = chan[i]]
    /\ ipc' = [ipc EXCEPT ![i] = IF chan[i].kind = "ok" THEN "ok" ELSE "err"]
    /\ permits' = permits + 1
    /\ UNCHANGED <<cfg, req, resp, chan, sends, queue, enq_counter, inflight,
                   prev_batch, forward_errs, rest_vars>>

JoinAllReversed(r) ==
    [k \in 1..Len(req[r].inputs) |-> ires[<<r, Len(req[r].inputs) - k + 1>>]]

\* join_all(futures): outputs in the order of the futures
JoinAll(r) == [k \in 1..Len(req[r].inputs) |-> ires[<<r, k>>]]

\* collect::<Result<Vec<_>>>()? : the first error in order, else all values
Collect(results) ==
    IF \E k \in 1..Len(results) : results[k].kind # "ok"
    THEN LET k == CHOOSE j \in 1..Len(results) :
                     /\ results[j].kind # "ok"
                     /\ \A h \in 1..(j - 1) : results[h].kind = "ok"
         IN  [kind |-> results[k].kind, embeddings |-> <<>>]
    ELSE [kind |-> "ok", embeddings |-> [k \in 1..Len(results) |-> results[k].emb]]

\* the handler returns once its future(s) are complete
Respond(r) ==
    /\ req[r].pc = "running"
    /\ \A i \in ItemsOf(r) : Finished(i)
    /\ resp' = [resp EXCEPT ![r] = Collect(JoinAll(r))]
    /\ req' = [req EXCEPT ![r].pc = "responded"]
    /\ UNCHANGED <<cfg, permits, ipc, ires, chan, sends, queue, enq_counter, inflight,
                   prev_batch, forward_errs, rest_vars>>

DisconnectLeaking(r) ==
    /\ req[r].pc = "running"
    /\ Cardinality({q \in Req : req[q].pc = "cancelled"}) < MaxDisconnects
    /\ req' = [req EXCEPT ![r].pc = "cancelled"]
    /\ ipc' = [i \in Items |-> IF i \in ItemsOf(r) /\ ~Finished(i)
                               THEN "dropped" ELSE ipc[i]]
    /\ UNCHANGED <<cfg, permits, resp, ires, chan, sends, queue, enq_counter, inflight,
                   prev_batch, forward_errs, rest_vars>>

\* client disconnect: the handler future and all its item futures are dropped
Disconnect(r) ==
    /\ req[r].pc = "running"
    /\ Cardinality({q \in Req : req[q].pc = "cancelled"}) < MaxDisconnects
    /\ req' = [req EXCEPT ![r].pc = "cancelled"]
    /\ permits' = permits + Cardinality({i \in ItemsOf(r) : HoldsPermit(i)})
    /\ ipc' = [i \in Items |-> IF i \in ItemsOf(r) /\ ~Finished(i)
                               THEN "dropped" ELSE ipc[i]]
    /\ UNCHANGED <<cfg, resp, ires, chan, sends, queue, enq_counter, inflight,
                   prev_batch, forward_errs, rest_vars>>

InferStart ==
    /\ permits = RunInfer(cfg).permits
    /\ req = [r \in Req |-> NoReq]
    /\ resp = [r \in Req |-> NoResp]
    /\ ipc = [i \in Items |-> "none"]
    /\ ires = [i \in Items |-> NoMsg]
    /\ chan = [i \in Items |-> NoMsg]
    /\ sends = [i \in Items |-> 0]
    /\ queue = <<>>
    /\ enq_counter = 0
    /\ inflight = <<>>
    /\ prev_batch = [first |-> 0, last |-> 0]
    /\ forward_errs = 0

(***************************************************************************)
(* run_embed: from the handler's result to the HTTP status                 *)
(***************************************************************************)
\* an error message is modelled by the set of phrases it contains
\* the messages of the two validation errors of the batch path
ValidationMessage(kind) ==
    IF kind = "EmptyBatch" THEN {"inputs cannot be empty"}
    ELSE IF kind = "BatchTooLarge"
    THEN {"batch size", "> maximum allowed batch size"}
    ELSE {}

\* the messages of the errors raised behind the Infer facade: a refused permit
\* and a full queue are taken to carry the phrase the handler looks for
InferMessage(kind) ==
    IF kind \in {"Overloaded", "QueueFull"} THEN {"Queue is full"} ELSE {kind}

ErrorMessage(kind) ==
    IF kind \in {"EmptyBatch", "BatchTooLarge"} THEN ValidationMessage(kind)
    ELSE InferMessage(kind)

\* the final match of run_embed
StatusCode(result) ==
    IF result.kind = "ok" THEN 200
    ELSE IF "Queue is full" \in ErrorMessage(result.kind) THEN 429
    ELSE 500

(***************************************************************************)
(* Scheduler: ChronJobs, JobsCache and the jobs file                       *)
(***************************************************************************)
Uuids == 1..MaxJobs

\* keys of JobRegistry::build
RegistryKeys == {"sync_s3_files", "process_new_files"}

\* job_type and cron arguments that are enumerated
JobTypeArgs == RegistryKeys \cup {"no_such_job"}
CronArgs == {"0 */10 * * * *", "not a cron"}

\* JobBuilder::with_schedule accepts the expression
CronParses(cron) == cron = "0 */10 * * * *"

\* Uuid::to_string and Uuid::parse_str: the hyphenated text form
UuidToString(u) == <<"uuid", u>>
UuidParseStr(s) == IF Len(s) = 2 /\ s[1] = "uuid" THEN Some(s[2]) ELSE None

\* JobRecord of one map entry (serializable_jobs, save_jobs_to_file)
JobRecord(j) == [id |-> UuidToString(j.id), job_type |-> j.job_type, cron |-> j.cron]

\* the JSON list written by save_jobs_to_file
SaveJobs(map) == [exists |-> TRUE, list |-> {JobRecord(j) : j \in map}]

\* load_jobs_from_file: a missing file is an empty map, records whose id
\* does not parse are filtered out
LoadJobs(file) ==
    IF ~file.exists THEN {}
    ELSE {[id |-> UuidParseStr(rec.id).val, job_type |-> rec.job_type, cron |-> rec.cron] :
             rec \in {x \in file.list : UuidParseStr(x.id).some}}

\* JobsCache::get_jobs
ListJobs == {JobRecord(j) : j \in jobs}

\* add_cron_job: "" when the job was built and added to the cron runner
AddCronJobError(job_type, cron) ==
    IF job_type \notin RegistryKeys THEN "No job found for type"
    ELSE IF ~CronParses(cron) THEN "Invalid cron"
    ELSE ""

NoAdd == [ok |-> FALSE, id |-> 0, job_type |-> "", cron |-> "", life |-> 0]

NoRemove == [id |-> 0, ok |-> FALSE]

\* ChronJobs::add_job
AddJob(job_type, cron) ==
    /\ next_uuid < MaxJobs
    /\ LET id == next_uuid + 1      \* Uuid::new_v4()
           map == jobs \cup {[id |-> id, job_type |-> job_type, cron |-> cron]}
       IN  /\ next_uuid' = id
           /\ jobs' = map              \* JobsCache::add_job: insert, then save
           /\ \E write_ok \in BOOLEAN :
                 IF ~write_ok
                 THEN /\ last_add' = NoAdd
                      /\ UNCHANGED <<jobs_file, sched_jobs>>
                 ELSE /\ jobs_file' = SaveJobs(map)
                      /\ IF AddCronJobError(job_type, cron) # ""
                         THEN /\ last_add' = NoAdd
                              /\ UNCHANGED sched_jobs
                         ELSE /\ sched_jobs' = sched_jobs \cup {id}
                              /\ last_add' = [ok |-> TRUE, id |-> id,
                                              job_type |-> job_type, cron |-> cron,
                                              life |-> restarts]
    /\ remove_ret' = NoRemove
    /\ UNCHANGED <<sched_started, started, restarts, infer_vars, ext_vars>>

RemoveJobCacheOnly(id) ==
    LET map == {j \in jobs : j.id # id} IN
    /\ jobs' = map
    /\ \E write_ok \in BOOLEAN :
          /\ IF write_ok THEN jobs_file' = SaveJobs(map) ELSE UNCHANGED jobs_file
          /\ remove_ret' = [id |-> id, ok |-> write_ok]
    /\ last_add' = IF last_add.id = id THEN NoAdd ELSE last_add
    /\ UNCHANGED <<sched_jobs, sched_started, started, next_uuid, restarts, infer_vars,
                   ext_vars>>

\* ChronJobs::remove_job: sched.remove first, its error returns before the
\* cache is touched; whether the runner refuses an id it does not hold is
\* the runner's choice
RemoveJob(id) ==
    \E sched_ok \in (IF id \in sched_jobs THEN {TRUE} ELSE BOOLEAN) :
        IF ~sched_ok
        THEN /\ remove_ret' = [id |-> id, ok |-> FALSE]
             /\ UNCHANGED <<jobs, jobs_file, sched_jobs, sched_started, next_uuid,
                            last_add, started, restarts, infer_vars, ext_vars>>
        ELSE /\ sched_jobs' = sched_jobs \ {id}
             /\ LET map == {j \in jobs : j.id # id} IN
                /\ jobs' = map
                /\ \E write_ok \in BOOLEAN :
                      /\ IF write_ok THEN jobs_file' = SaveJobs(map)
                         ELSE UNCHANGED jobs_file
                      /\ remove_ret' = [id |-> id, ok |-> write_ok]
             /\ last_add' = IF last_add.id = id THEN NoAdd ELSE last_add
             /\ UNCHANGED <<sched_started, started, next_uuid, restarts, infer_vars,
                            ext_vars>>

\* the orders in which a HashMap of these entries can be iterated
Orders(map) ==
    {o \in [1..Cardinality(map) -> map] : \A a, b \in DOMAIN o : a # b => o[a] # o[b]}

\* index of the first entry on which add_cron_job fails (0 when none does)
FirstFailure(o) ==
    IF \E k \in DOMAIN o : AddCronJobError(o[k].job_type, o[k].cron) # ""
    THEN CHOOSE k \in DOMAIN o :
            /\ AddCronJobError(o[k].job_type, o[k].cron) # ""
            /\ \A h \in 1..(k - 1) : AddCronJobError(o[h].job_type, o[h].cron) = ""
    ELSE 0

\* ChronJobs::start
Start ==
    /\ started = "none"
    /\ LET job_map == LoadJobs(jobs_file) IN
       /\ jobs' = job_map                \* cache.set_jobs
       /\ \E o \in Orders(job_map) :
             LET f == FirstFailure(o) IN
             IF f = 0
             THEN /\ sched_jobs' = sched_jobs \cup {j.id : j \in job_map}
                  /\ sched_started' = TRUE
                  /\ started' = "ok"
             ELSE /\ sched_jobs' = sched_jobs \cup {o[h].id : h \in 1..(f - 1)}
                  /\ started' = "err"
                  /\ UNCHANGED sched_started
    /\ remove_ret' = NoRemove
    /\ UNCHANGED <<jobs_file, next_uuid, last_add, restarts, infer_vars, ext_vars>>

\* the process ends and a new one is started: ChronJobs::new
Restart ==
    /\ restarts < MaxRestarts
    /\ restarts' = restarts + 1
    /\ jobs' = {}
    /\ sched_jobs' = {}
    /\ sched_started' = FALSE
    /\ started' = "none"
    /\ remove_ret' = NoRemove
    /\ UNCHANGED <<jobs_file, next_uuid, last_add, infer_vars, ext_vars>>

(***************************************************************************)
(* Job invocations: what the cron runner spawns on a tick                  *)
(***************************************************************************)
NoInv == [job_type |-> "", wait |-> 0, run |-> 0]

\* invocations spawned and not finished
InFlight == [id \in Uuids |-> inv[id].wait + inv[id].run]

RECURSIVE SumOver(_, _)
SumOver(f, S) == IF S = {} THEN 0
                 ELSE LET x == CHOOSE y \in S : TRUE IN f[x] + SumOver(f, S \ {x})

EmbedderLockedNever == FALSE

\* the embedder mutex of JobRegistry::build is held by a running
\* process_new_files invocation
EmbedderLocked == \E id \in Uuids : inv[id].job_type = "process_new_files" /\ inv[id].run > 0

\* the cron runner reaches a tick of job id and spawns job_logic: the closure
\* of add_cron_job calls job_fn whether or not an earlier invocation is done
Fire(id) ==
    /\ sched_started
    /\ id \in sched_jobs
    /\ \E j \in jobs : j.id = id
    /\ SumOver(InFlight, Uuids) < MaxRuns
    /\ LET j == CHOOSE k \in jobs : k.id = id IN
       inv' = [inv EXCEPT ![id] =
                 IF j.job_type = "process_new_files"
                 THEN [job_type |-> j.job_type, wait |-> @.wait + 1, run |-> @.run]
                 ELSE [job_type |-> j.job_type, wait |-> @.wait, run |-> @.run + 1]]
    /\ UNCHANGED <<infer_vars, cron_vars, lock_vars, sync_vars, ingest_vars, more_vars>>

\* process_new_files: embedder.lock().await returns
EmbedderLock(id) ==
    /\ inv[id].wait > 0
    /\ ~EmbedderLocked
    /\ inv' = [inv EXCEPT ![id] = [@ EXCEPT !.wait = @ - 1, !.run = @ + 1]]
    /\ UNCHANGED <<infer_vars, cron_vars, lock_vars, sync_vars, ingest_vars, more_vars>>

\* the job function returns (errors are logged inside it)
Finish(id) ==
    /\ inv[id].run > 0
    /\ inv' = [inv EXCEPT ![id] = [@ EXCEPT !.run = @ - 1]]
    /\ UNCHANGED <<infer_vars, cron_vars, lock_vars, sync_vars, ingest_vars, more_vars>>

InitRun == inv = [id \in Uuids |-> NoInv]

(***************************************************************************)
(* JobsCache::add_job / remove_job step by step, with concurrent callers   *)
(* and a process that can stop at any point                                *)
(***************************************************************************)
Callers == 1..NCallers

NoCall == [pc |-> "idle", op |-> "", id |-> 0, job_type |-> "", cron |-> "",
           snap |-> {}, waited |-> FALSE, ok |-> FALSE]

NoBoot == [crashed |-> FALSE, pre |-> {}, post |-> {}, loaded |-> {}]

\* what load_jobs_from_file().unwrap_or_default() yields: a truncated file
\* does not deserialize, the error becomes the empty map
LoadOrDefault == IF writing THEN {} ELSE LoadJobs(jobs_file)

\* a task calls cache.add_job(job_type, id, cron) and reaches jobs.lock().await
CacheCallAdd(p, job_type) ==
    /\ call[p].pc = "idle"
    /\ ncalls < MaxCalls
    /\ next_uuid < MaxJobs
    /\ next_uuid' = next_uuid + 1
    /\ ncalls' = ncalls + 1
    /\ call' = [call EXCEPT ![p] = [NoCall EXCEPT !.pc = "waiting", !.op = "add",
                                      !.id = next_uuid + 1, !.job_type = job_type,
                                      !.cron = "0 */10 * * * *",
                                      !.waited = (lock # 0)]]
    /\ UNCHANGED <<jobs, jobs_file, sched_jobs, sched_started, last_add, started,
                   restarts, remove_ret, lock, writing, boot, infer_vars, run_vars, sync_vars,
                   ingest_vars, more_vars>>

\* a task calls cache.remove_job(id) and reaches jobs.lock().await
CacheCallRemove(p, id) ==
    /\ call[p].pc = "idle"
    /\ ncalls < MaxCalls
    /\ ncalls' = ncalls + 1
    /\ call' = [call EXCEPT ![p] = [NoCall EXCEPT !.pc = "waiting", !.op = "remove",
                                      !.id = id, !.waited = (lock # 0)]]
    /\ UNCHANGED <<jobs, jobs_file, sched_jobs, sched_started, next_uuid, last_add,
                   started, restarts, remove_ret, lock, writing, boot, infer_vars,
                   run_vars, sync_vars,
                   ingest_vars, more_vars>>

CacheLockDropped(p) ==
    /\ call[p].pc = "waiting"
    /\ lock = 0
    /\ LET map == IF call[p].op = "add"
                  THEN {j \in jobs : j.id # call[p].id}
                       \cup {[id |-> call[p].id, job_type |-> call[p].job_type,
                              cron |-> call[p].cron]}
                  ELSE {j \in jobs : j.id # call[p].id}
       IN  /\ jobs' = map
           /\ call' = [call EXCEPT ![p].pc = "locked", ![p].snap = map]
    /\ UNCHANGED <<jobs_file, sched_jobs, sched_started, next_uuid, last_add, started,
                   restarts, remove_ret, lock, writing, boot, ncalls, infer_vars,
                   run_vars, sync_vars,
                   ingest_vars, more_vars>>

\* jobs.lock().await returns; jobs.insert / jobs.remove under the guard, which
\* lives until the call returns; save_jobs_to_file is handed the guarded map
CacheLock(p) ==
    /\ call[p].pc = "waiting"
    /\ lock = 0
    /\ lock' = p
    /\ LET map == IF call[p].op = "add"
                  THEN {j \in jobs : j.id # call[p].id}
                       \cup {[id |-> call[p].id, job_type |-> call[p].job_type,
                              cron |-> call[p].cron]}
                  ELSE {j \in jobs : j.id # call[p].id}
       IN  /\ jobs' = map
           /\ call' = [call EXCEPT ![p].pc = "locked", ![p].snap = map]
    /\ UNCHANGED <<jobs_file, sched_jobs, sched_started, next_uuid, last_add, started,
                   restarts, remove_ret, writing, boot, ncalls, infer_vars, run_vars, sync_vars,
                   ingest_vars, more_vars>>

\* tokio::fs::write, first half: the file is created or truncated; when it
\* cannot be opened the call returns the error and the file is as before
CacheWriteBegin(p) ==
    /\ call[p].pc = "locked"
    /\ \E open_ok \in BOOLEAN :
          IF open_ok
          THEN /\ writing' = TRUE
               /\ call' = [call EXCEPT ![p].pc = "writing"]
               /\ UNCHANGED lock
          ELSE /\ call' = [call EXCEPT ![p].pc = "done", ![p].ok = FALSE]
               /\ lock' = IF lock = p THEN 0 ELSE lock
               /\ UNCHANGED writing
    /\ UNCHANGED <<jobs, jobs_file, sched_jobs, sched_started, next_uuid, last_add,
                   started, restarts, remove_ret, boot, ncalls, infer_vars, run_vars, sync_vars,
                   ingest_vars, more_vars>>

\* tokio::fs::write, second half: the JSON text is in the file; Ok(()) and the
\* guard is dropped
CacheWriteEnd(p) ==
    /\ call[p].pc = "writing"
    /\ jobs_file' = SaveJobs(call[p].snap)
    /\ writing' = FALSE
    /\ lock' = IF lock = p THEN 0 ELSE lock
    /\ call' = [call EXCEPT ![p].pc = "done", ![p].ok = TRUE]
    /\ UNCHANGED <<jobs, sched_jobs, sched_started, next_uuid, last_add, started,
                   restarts, remove_ret, boot, ncalls, infer_vars, run_vars, sync_vars,
                   ingest_vars, more_vars>>

\* the caller has its result and may call again
CacheReturn(p) ==
    /\ call[p].pc = "done"
    /\ call' = [call EXCEPT ![p] = NoCall]
    /\ UNCHANGED <<jobs, jobs_file, sched_jobs, sched_started, next_uuid, last_add,
                   started, restarts, remove_ret, lock, writing, boot, ncalls,
                   infer_vars, run_vars, sync_vars,
                   ingest_vars, more_vars>>

\* the process stops; the next one runs start(): set_jobs(load().unwrap_or_default())
CrashRestart ==
    /\ ~boot.crashed
    /\ boot' = [crashed |-> TRUE,
                pre |-> LoadJobs(jobs_file),
                post |-> IF \E p \in Callers : call[p].pc \in {"locked", "writing"}
                         THEN jobs ELSE LoadJobs(jobs_file),
                loaded |-> LoadOrDefault]
    /\ jobs' = LoadOrDefault
    /\ call' = [p \in Callers |-> NoCall]
    /\ lock' = 0
    /\ UNCHANGED <<jobs_file, sched_jobs, sched_started, next_uuid, last_add, started,
                   restarts, remove_ret, writing, ncalls, infer_vars, run_vars, sync_vars,
                   ingest_vars, more_vars>>

InitLock ==
    /\ call = [p \in Callers |-> NoCall]
    /\ lock = 0
    /\ writing = FALSE
    /\ boot = NoBoot
    /\ ncalls = 0

(***************************************************************************)
(* sync_s3_files: the file catalog is reconciled with the bucket           *)
(***************************************************************************)
Keys == 1..NKeys
Runners == 1..NRunners

\* the keys of a set in the order of a listing (ascending)
RECURSIVE SortedSeq(_)
SortedSeq(S) == IF S = {} THEN <<>>
                ELSE LET m == CHOOSE x \in S : \A y \in S : x <= y
                     IN  <<m>> \o SortedSeq(S \ {m})

\* list_files_in_bucket: one list_objects_v2 request, the keys of its
\* response; the continuation token of the response is not read
ListFilesInBucket(keys) ==
    LET all == SortedSeq(keys)
    IN  IF Len(all) <= PageSize THEN all ELSE SubSeq(all, 1, PageSize)

Filenames(rows) == {f.filename : f \in rows}

InSnapshotNever(db_files, key) == FALSE

\* db_files.iter().any(|f| f.filename == s3_file)
InSnapshot(db_files, key) == \E f \in db_files : f.filename = key

NoSync == [pc |-> "idle", s3_files |-> <<>>, db_files |-> {}, todo |-> {}, i |-> 0,
           ret |-> "none", n |-> 0, alone |-> FALSE]

Active(r) == sync[r].pc \in {"listed", "inserting", "deleting"}

\* a tick runs sync_s3_files: list_files_in_bucket(client, bucket, None)
SyncList(r) ==
    /\ ~Active(r)
    /\ nsync < MaxSyncRuns
    /\ nsync' = nsync + 1
    /\ \E list_ok \in BOOLEAN :
          sync' = [q \in Runners |->
                     IF q = r
                     THEN IF list_ok
                          THEN [NoSync EXCEPT !.pc = "listed",
                                              !.s3_files = ListFilesInBucket(store),
                                              !.n = nsync + 1,
                                              !.alone = \A o \in Runners \ {r} : ~Active(o)]
                          ELSE [NoSync EXCEPT !.pc = "done", !.ret = "list_failed",
                                              !.n = nsync + 1]
                     ELSE IF Active(q) /\ list_ok THEN [sync[q] EXCEPT !.alone = FALSE]
                     ELSE sync[q]]
    /\ UNCHANGED <<store, schema, catalog, next_file_id, settled, infer_vars, cron_vars,
                   run_vars, lock_vars, ingest_vars, more_vars>>

\* FileMac::get_all_files
SyncLoad(r) ==
    /\ sync[r].pc = "listed"
    /\ sync' = [sync EXCEPT ![r].pc = "inserting", ![r].db_files = catalog,
                            ![r].todo = catalog, ![r].i = 1]
    /\ UNCHANGED <<store, schema, catalog, next_file_id, nsync, settled, infer_vars,
                   cron_vars, run_vars, lock_vars, ingest_vars, more_vars>>

\* a call to the database, the object store or the embedder fails for an
\* outside cause
CallOutcomes == IF faults < MaxFaults THEN BOOLEAN ELSE {TRUE}

\* one turn of the first loop: create_file for a key the snapshot lacks; the
\* INSERT fails when the table rejects a second row of the filename, or for
\* an outside cause, and the error ends the run
SyncInsert(r) ==
    /\ sync[r].pc = "inserting"
    /\ LET me == sync[r] IN
       IF me.i > Len(me.s3_files)
       THEN /\ sync' = [sync EXCEPT ![r].pc = "deleting"]
            /\ UNCHANGED <<catalog, next_file_id, faults>>
       ELSE LET key == me.s3_files[me.i] IN
            IF InSnapshot(me.db_files, key)
            THEN /\ sync' = [sync EXCEPT ![r].i = @ + 1]
                 /\ UNCHANGED <<catalog, next_file_id, faults>>
            ELSE IF schema = "unique" /\ key \in Filenames(catalog)
            THEN /\ sync' = [sync EXCEPT ![r].pc = "done", ![r].ret = "create_failed"]
                 /\ UNCHANGED <<catalog, next_file_id, faults>>
            ELSE \E db_ok \in CallOutcomes :
                   IF db_ok
                   THEN /\ catalog' = catalog \cup {[file_id |-> next_file_id + 1,
                                                     filename |-> key, processed |-> FALSE]}
                        /\ next_file_id' = next_file_id + 1
                        /\ sync' = [sync EXCEPT ![r].i = @ + 1]
                        /\ UNCHANGED faults
                   ELSE /\ sync' = [sync EXCEPT ![r].pc = "done", ![r].ret = "create_error"]
                        /\ faults' = faults + 1
                        /\ UNCHANGED <<catalog, next_file_id>>
    /\ UNCHANGED <<store, schema, nsync, settled, chunks, proc, nticks, infer_vars,
                   cron_vars, run_vars, lock_vars, more_vars>>

\* one turn of the second loop: delete_file for a snapshot row whose filename
\* the listing lacks (the chunk rows of the file go with it); an error ends
\* the run; after the last row the run returns Ok(())
SyncDelete(r) ==
    /\ sync[r].pc = "deleting"
    /\ LET me == sync[r] IN
       IF me.todo = {}
       THEN /\ sync' = [sync EXCEPT ![r].pc = "done", ![r].ret = "ok"]
            /\ settled' = IF settled = 0 /\ me.alone THEN me.n ELSE settled
            /\ UNCHANGED <<catalog, chunks, faults>>
       ELSE LET db_file == CHOOSE f \in me.todo : \A g \in me.todo : f.file_id <= g.file_id
            IN  IF db_file.filename \in Range(me.s3_files)
                THEN /\ sync' = [sync EXCEPT ![r].todo = @ \ {db_file}]
                     /\ UNCHANGED <<catalog, chunks, faults, settled>>
                ELSE \E db_ok \in CallOutcomes :
                       IF db_ok
                       THEN /\ catalog' = {f \in catalog : f.file_id # db_file.file_id}
                            /\ chunks' = {c \in chunks : c.file_id # db_file.file_id}
                            /\ sync' = [sync EXCEPT ![r].todo = @ \ {db_file}]
                            /\ UNCHANGED <<faults, settled>>
                       ELSE /\ sync' = [sync EXCEPT ![r].pc = "done",
                                                    ![r].ret = "delete_error"]
                            /\ faults' = faults + 1
                            /\ UNCHANGED <<catalog, chunks, settled>>
    /\ UNCHANGED <<store, schema, next_file_id, nsync, proc, nticks, infer_vars,
                   cron_vars, run_vars, lock_vars, more_vars>>

\* rows the catalog can start with: one processed row per filename
SeedRows(names) == {[file_id |-> k, filename |-> k, processed |-> TRUE] : k \in names}

InitSync ==
    /\ store \in SUBSET Keys
    /\ schema \in {"unique", "plain"}
    /\ catalog \in {SeedRows(names) : names \in SUBSET Keys}
    /\ next_file_id = NKeys
    /\ sync = [r \in Runners |-> NoSync]
    /\ nsync = 0
    /\ settled = 0

\* the reconciliation is not run
InitNoSync ==
    /\ store = {}
    /\ schema = "unique"
    /\ catalog = {}
    /\ next_file_id = NKeys
    /\ sync = [r \in Runners |-> NoSync]
    /\ nsync = 0
    /\ settled = 0

(***************************************************************************)
(* process_new_files: unprocessed files are parsed, split and embedded     *)
(***************************************************************************)
\* chunk rows a processed row of the catalog starts with
SeedChunks(rows) == {[file_id |-> f.file_id, chunk_index |-> 0] : f \in {g \in rows : g.processed}}

\* skipped is history: the ids of the files whose text gave no chunk so far
NoProc == [pc |-> "idle", new_files |-> <<>>, k |-> 0, attempt |-> 0, n |-> 0, i |-> 0,
           ret |-> "none", skipped |-> {}]

InitIngest ==
    /\ chunks = SeedChunks(catalog)
    /\ proc = NoProc
    /\ faults = 0
    /\ nticks = 0

\* FileMac::get_unprocessed_files, in the order of the file ids
Unprocessed(rows) ==
    LET ids == SortedSeq({f.file_id : f \in {g \in rows : ~g.processed}})
    IN  [x \in 1..Len(ids) |-> CHOOSE f \in rows : f.file_id = ids[x]]

\* fetch_markdown_with_retry(.., 3, ..)
MaxRetries == 3

\* what one POST to the parser can come to
ParserOutcomes == {"connect_error", "status", "decode_error", "ok"}

RawChunksEmptyNever(n) == FALSE

\* raw_chunks.is_empty()
RawChunksEmpty(n) == n = 0

\* a loop that ends with the file at hand
NextFileStop(me) == [me EXCEPT !.pc = "done", !.ret = "ok", !.k = @ + 1]

\* the loop over new_files moves on to the file after new_files[k]
NextFile(me) ==
    IF me.k + 1 > Len(me.new_files)
    THEN [me EXCEPT !.pc = "done", !.ret = "ok", !.k = @ + 1]
    ELSE [me EXCEPT !.pc = "presign", !.k = @ + 1, !.attempt = 0, !.n = 0, !.i = 0]

\* an error leaves process_new_files through the ? operator
Abort(me, err) == [me EXCEPT !.pc = "done", !.ret = err]

\* a tick runs process_new_files: get_unprocessed_files
ProcStart ==
    /\ proc.pc \in {"idle", "done"}
    /\ nticks < MaxTicks
    /\ nticks' = nticks + 1
    /\ \E db_ok \in CallOutcomes :
          IF db_ok
          THEN LET new_files == Unprocessed(catalog) IN
               /\ proc' = IF Len(new_files) = 0
                          THEN [NoProc EXCEPT !.pc = "done", !.ret = "ok", !.k = 1,
                                              !.skipped = proc.skipped]
                          ELSE [NoProc EXCEPT !.pc = "presign", !.new_files = new_files,
                                              !.k = 1, !.skipped = proc.skipped]
               /\ UNCHANGED faults
          ELSE /\ proc' = [NoProc EXCEPT !.pc = "done", !.ret = "load_error", !.k = 1,
                                         !.skipped = proc.skipped]
               /\ faults' = faults + 1
    /\ UNCHANGED <<chunks, sync_vars, infer_vars, cron_vars, run_vars, lock_vars,
                   more_vars>>

\* generate_presigned_url for new_files[k]
ProcPresign ==
    /\ proc.pc = "presign"
    /\ \E ok \in CallOutcomes :
          IF ok
          THEN /\ proc' = [proc EXCEPT !.pc = "fetch"]
               /\ UNCHANGED faults
          ELSE /\ proc' = Abort(proc, "presign_error")
               /\ faults' = faults + 1
    /\ UNCHANGED <<chunks, nticks, sync_vars, infer_vars, cron_vars, run_vars, lock_vars,
                   more_vars>>

\* fetch_markdown_with_retry: one turn of its loop, then (on a decoded 2xx
\* response) split_markdown_into_chunks and the is_empty test
ProcFetch ==
    /\ proc.pc = "fetch"
    /\ \E outcome \in ParserOutcomes :
          LET attempt == proc.attempt + 1 IN
          CASE outcome = "connect_error" ->
                 proc' = Abort([proc EXCEPT !.attempt = attempt], "parser_request_failed")
            [] outcome = "decode_error" ->
                 proc' = Abort([proc EXCEPT !.attempt = attempt], "parser_decode_failed")
            [] outcome = "status" ->
                 proc' = IF attempt >= MaxRetries
                         THEN Abort([proc EXCEPT !.attempt = attempt], "parser_status")
                         ELSE [proc EXCEPT !.attempt = attempt]
            [] outcome = "ok" ->
                 \E n \in 0..MaxChunks :
                    proc' = IF RawChunksEmpty(n)
                            THEN NextFile([proc EXCEPT
                                             !.attempt = attempt,
                                             !.skipped = @ \cup {proc.new_files[proc.k].file_id}])
                            ELSE [proc EXCEPT !.attempt = attempt, !.pc = "chunk",
                                              !.n = n, !.i = 0]
    /\ UNCHANGED <<chunks, faults, nticks, sync_vars, infer_vars, cron_vars, run_vars,
                   lock_vars, more_vars>>

\* one turn of the loop over raw_chunks: embed, tokenize, create_chunk; the
\* INSERT is its own statement on the pool and fails when the file row is
\* gone or the table has a row of (file_id, chunk_index); after the last
\* chunk the file is to be marked
ProcChunk ==
    /\ proc.pc = "chunk"
    /\ LET file == proc.new_files[proc.k]
           row == [file_id |-> file.file_id, chunk_index |-> proc.i]
       IN  IF proc.i >= proc.n
           THEN /\ proc' = [proc EXCEPT !.pc = "mark"]
                /\ UNCHANGED <<chunks, faults>>
           ELSE
           \E embed_ok \in CallOutcomes :
             IF ~embed_ok
             THEN /\ proc' = Abort(proc, "embed_error")
                  /\ faults' = faults + 1
                  /\ UNCHANGED chunks
             ELSE IF file.file_id \notin {f.file_id : f \in catalog}
             THEN /\ proc' = Abort(proc, "chunk_no_file")
                  /\ UNCHANGED <<chunks, faults>>
             ELSE IF row \in chunks
             THEN /\ proc' = Abort(proc, "chunk_exists")
                  /\ UNCHANGED <<chunks, faults>>
             ELSE \E db_ok \in CallOutcomes :
                    IF db_ok
                    THEN /\ chunks' = chunks \cup {row}
                         /\ proc' = [proc EXCEPT !.i = @ + 1]
                         /\ UNCHANGED faults
                    ELSE /\ proc' = Abort(proc, "chunk_error")
                         /\ faults' = faults + 1
                         /\ UNCHANGED chunks
    /\ UNCHANGED <<nticks, sync_vars, infer_vars, cron_vars, run_vars, lock_vars,
                   more_vars>>

\* update_file(file_id, {filename, processed: true}); fetch_one fails when
\* the row is gone
ProcMark ==
    /\ proc.pc = "mark"
    /\ LET file == proc.new_files[proc.k] IN
       IF file.file_id \notin {f.file_id : f \in catalog}
       THEN /\ proc' = Abort(proc, "update_no_file")
            /\ UNCHANGED <<catalog, faults>>
       ELSE \E db_ok \in CallOutcomes :
              IF db_ok
              THEN /\ catalog' = {IF f.file_id = file.file_id
                                  THEN [f EXCEPT !.filename = file.filename,
                                                 !.processed = TRUE]
                                  ELSE f : f \in catalog}
                   /\ proc' = NextFile(proc)
                   /\ UNCHANGED faults
              ELSE /\ proc' = Abort(proc, "update_error")
                   /\ faults' = faults + 1
                   /\ UNCHANGED catalog
    /\ UNCHANGED <<store, schema, next_file_id, sync, nsync, settled, chunks, nticks,
                   infer_vars, cron_vars, run_vars, lock_vars, more_vars>>

(***************************************************************************)
(* split_markdown_into_chunks and enforce_token_limit                      *)
(***************************************************************************)
\* a text is a sequence of characters: two words, the full stop, and the
\* blank line "\n\n" that separates paragraphs
Para == "\n\n"
Stop == "."
Chars == {"a", "b", Stop, Para}

RECURSIVE SeqsUpTo(_, _)
SeqsUpTo(S, n) ==
    IF n = 0 THEN {<<>>}
    ELSE LET shorter == SeqsUpTo(S, n - 1)
         IN  shorter \cup {Append(t, x) : t \in {u \in shorter : Len(u) = n - 1}, x \in S}

Documents == SeqsUpTo(Chars, MaxDoc)

\* str::split(sep): the pieces between the separators, empty pieces kept
RECURSIVE SplitOn(_, _)
SplitOn(text, sep) ==
    IF \A x \in 1..Len(text) : text[x] # sep THEN <<text>>
    ELSE LET at == CHOOSE x \in 1..Len(text) :
                      text[x] = sep /\ \A y \in 1..(x - 1) : text[y] # sep
         IN  <<SubSeq(text, 1, at - 1)>> \o SplitOn(SubSeq(text, at + 1, Len(text)), sep)

IsWord(ch) == ch # Para
IsSpecial(id) == id \in {"<s>", "</s>"}

\* tokenizer.encode(text, true): one id per word or full stop, none for white
\* space, and the ids the tokenizer puts around them when it has such
TokenizerEncode(text, special) ==
    IF special THEN <<"<s>">> \o SelectSeq(text, IsWord) \o <<"</s>">>
    ELSE SelectSeq(text, IsWord)

\* tokenizer.decode(ids, true): the text of the ids that are not special
TokenizerDecode(ids) == SelectSeq(ids, LAMBDA id : ~IsSpecial(id))

\* slice::chunks(size)
RECURSIVE SliceChunks(_, _)
SliceChunks(tokens, size) ==
    IF Len(tokens) = 0 THEN <<>>
    ELSE IF Len(tokens) <= size THEN <<tokens>>
    ELSE <<SubSeq(tokens, 1, size)>> \o SliceChunks(SubSeq(tokens, size + 1, Len(tokens)), size)

EnforceTokenLimitWhole(text, max_tokens, special) == <<text>>

\* enforce_token_limit
EnforceTokenLimit(text, max_tokens, special) ==
    LET tokens == TokenizerEncode(text, special) IN
    IF Len(tokens) <= max_tokens THEN <<text>>
    ELSE LET windows == SliceChunks(tokens, max_tokens)
         IN  [w \in 1..Len(windows) |-> TokenizerDecode(windows[w])]

\* the inner loops of split_markdown_into_chunks over the sentences of a
\* paragraph
RECURSIVE HardSplit(_, _, _)
HardSplit(sentences, max_tokens, special) ==
    IF Len(sentences) = 0 THEN <<>>
    ELSE EnforceTokenLimit(Head(sentences), max_tokens, special)
           \o HardSplit(Tail(sentences), max_tokens, special)

\* the loop of split_markdown_into_chunks over the paragraphs, and the flush
\* after it
RECURSIVE SplitLoop(_, _, _, _, _)
SplitLoop(paragraphs, chunks_, current_chunk, max_tokens, special) ==
    IF Len(paragraphs) = 0
    THEN IF Len(current_chunk) # 0 THEN Append(chunks_, current_chunk) ELSE chunks_
    ELSE LET paragraph == Head(paragraphs)
             candidate == IF Len(current_chunk) = 0 THEN paragraph
                          ELSE current_chunk \o <<Para>> \o paragraph
             tokens == Len(TokenizerEncode(candidate, special))
         IN  IF tokens >= max_tokens
             THEN LET flushed == IF Len(current_chunk) # 0
                                 THEN Append(chunks_, current_chunk) ELSE chunks_
                  IN  SplitLoop(Tail(paragraphs),
                                flushed \o HardSplit(SplitOn(paragraph, Stop), max_tokens, special),
                                <<>>, max_tokens, special)
             ELSE SplitLoop(Tail(paragraphs), chunks_, candidate, max_tokens, special)

\* split_markdown_into_chunks
SplitMarkdownIntoChunks(content, max_tokens, special) ==
    SplitLoop(SplitOn(content, Para), <<>>, <<>>, max_tokens, special)

\* a text, a max_tokens and a tokenizer are handed to the chunker
InitChunk ==
    /\ split_in \in [text : Documents, max_tokens : 1..MaxMaxTokens, special : BOOLEAN,
                     done : {FALSE}]
    /\ split_out = <<>>

Split ==
    /\ ~split_in.done
    /\ split_out' = SplitMarkdownIntoChunks(split_in.text, split_in.max_tokens,
                                            split_in.special)
    /\ split_in' = [split_in EXCEPT !.done = TRUE]
    /\ UNCHANGED <<infer_vars, cron_vars, run_vars, lock_vars, sync_vars, ingest_vars,
                   load_vars, late_vars>>

(***************************************************************************)
(* run: the model type and the pooling are resolved at load                *)
(***************************************************************************)
\* names are sequences of their parts, so that a suffix can be tested
ArchNames == {<<"Bert", "Model">>,
              <<"Bert", "For", "MaskedLM">>,
              <<"Bert", "For", "Sequence", "Classification">>,
              <<"New", "For", "Token", "Classification">>}
ModelTypeNames == {<<"bert">>, <<"Distil", "Bert">>, <<"qwen2">>}
Pools == {"Cls", "Mean", "Splade", "LastToken"}

\* str::ends_with
EndsWith(name, suffix) == Len(name) > 0 /\ name[Len(name)] = suffix

\* str::to_lowercase
ToLowercase(name) ==
    [x \in 1..Len(name) |->
        CASE name[x] = "Bert" -> "bert"
          [] name[x] = "Distil" -> "distil"
          [] OTHER -> name[x]]

\* str::contains
Contains(name, part) == \E x \in 1..Len(name) : name[x] = part

PoolConfigs == [pooling_mode_cls_token : BOOLEAN, pooling_mode_mean_tokens : BOOLEAN,
                pooling_mode_lasttoken : BOOLEAN]
NoPoolConfig == [some |-> FALSE,
                 val |-> [pooling_mode_cls_token |-> FALSE, pooling_mode_mean_tokens |-> FALSE,
                          pooling_mode_lasttoken |-> FALSE]]

LoadOk(kind, pool) == [kind |-> kind, pool |-> pool, err |-> ""]
LoadErr(err) == [kind |-> "Error", pool |-> "", err |-> err]

PoolTryFromMeanFirst(config) ==
    IF config.pooling_mode_mean_tokens THEN LoadOk("Embedding", "Mean")
    ELSE IF config.pooling_mode_cls_token THEN LoadOk("Embedding", "Cls")
    ELSE IF config.pooling_mode_lasttoken THEN LoadOk("Embedding", "LastToken")
    ELSE LoadErr("Pooling config is not supported")

\* impl TryFrom<PoolConfig> for Pool
PoolTryFrom(config) ==
    IF config.pooling_mode_cls_token THEN LoadOk("Embedding", "Cls")
    ELSE IF config.pooling_mode_mean_tokens THEN LoadOk("Embedding", "Mean")
    ELSE IF config.pooling_mode_lasttoken THEN LoadOk("Embedding", "LastToken")
    ELSE LoadErr("Pooling config is not supported")

\* get_backend_model_type: the loop over config.architectures from entry x on
\* (kind none when no entry decides)
RECURSIVE ArchLoop(_, _, _)
ArchLoop(config, pooling, x) ==
    IF x > Len(config.architectures) THEN LoadOk("none", "")
    ELSE LET arch == config.architectures[x] IN
         IF arch = <<"New", "For", "Token", "Classification">>
              /\ (~config.id2label.some \/ ~config.label2id.some)
         THEN ArchLoop(config, pooling, x + 1)
         ELSE IF pooling = SomeName("Splade") /\ EndsWith(arch, "MaskedLM")
         THEN LoadOk("Embedding", "Splade")
         ELSE IF EndsWith(arch, "Classification")
         THEN LoadOk("Classifier", "")
         ELSE ArchLoop(config, pooling, x + 1)

\* get_backend_model_type
GetBackendModelType(config, pool_config, pooling) ==
    LET decided == ArchLoop(config, pooling, 1) IN
    IF decided.kind # "none" THEN decided
    ELSE IF pooling = SomeName("Splade")
    THEN LoadErr("Splade pooling is not supported: model is not a ForMaskedLM model")
    ELSE IF pooling.some THEN LoadOk("Embedding", pooling.val)
    ELSE IF pool_config.some THEN PoolTryFrom(pool_config.val)
    ELSE IF ~Contains(ToLowercase(config.model_type), "bert")
    THEN LoadErr("--pooling arg is not set and we could not find a pooling configuration")
    ELSE LoadOk("Embedding", "Cls")

\* run: the model type told to clients, from the backend model type
InfoModelType(config, backend_model_type) ==
    IF backend_model_type.kind = "Classifier"
    THEN IF ~config.id2label.some THEN LoadErr("config.json does not contain id2label")
         ELSE IF ~config.label2id.some
         THEN LoadErr("config.json does not contain label2id")
         ELSE IF config.id2label.val > 1 THEN LoadOk("Classifier", "")
         ELSE LoadOk("Reranker", "")
    ELSE backend_model_type

ModelConfigs ==
    [architectures : SeqsUpTo(ArchNames, MaxArchs), model_type : ModelTypeNames,
     id2label : {None} \cup {Some(n) : n \in 0..MaxLabels}, label2id : {None, Some(1)}]

\* a model directory and the --pooling argument are handed to run
InitLoad ==
    /\ model_in \in [config : ModelConfigs,
                     pool_config : {NoPoolConfig} \cup {[some |-> TRUE, val |-> c] : c \in PoolConfigs},
                     pooling : {NoName} \cup {SomeName(pool) : pool \in Pools},
                     done : {FALSE}]
    /\ model_out = <<>>

LoadModel ==
    /\ ~model_in.done
    /\ LET backend_model_type == GetBackendModelType(model_in.config, model_in.pool_config,
                                                     model_in.pooling)
       IN  model_out' = [backend_model_type |-> backend_model_type,
                         model_type |-> InfoModelType(model_in.config, backend_model_type)]
    /\ model_in' = [model_in EXCEPT !.done = TRUE]
    /\ UNCHANGED <<infer_vars, cron_vars, run_vars, lock_vars, sync_vars, ingest_vars,
                   chunk_vars, late_vars>>

(***************************************************************************)
(* Embeddings::embed: the embedder of the ingestion jobs                   *)
(***************************************************************************)
\* what tokenizer.encode_batch(texts, true) returns: per text its token ids,
\* never empty (the ids the tokenizer puts around the text) and never the
\* padding id 0; the tokenizer itself pads nothing (with_padding(None))
TokenIds == 1..MaxTokenId
Encodings == SeqsUpTo(TokenIds, MaxEncLen) \ {<<>>}
EncodingBatches == UNION {[1..n -> Encodings] : n \in 1..MaxTexts}

RECURSIVE GCD(_, _)
GCD(a, b) == IF b = 0 THEN a ELSE GCD(b, a % b)

\* ids.resize(max_len, 0) and mask.resize(max_len, 0)
Resize(row, max_len, fill) ==
    [j \in 1..max_len |-> IF j <= Len(row) THEN row[j] ELSE fill]

\* BertModel::forward with an attention mask: the hidden state of a position
\* (two components here) depends on its own id, on its place in the row and
\* on the ids of the positions of its row that the mask lets it attend to
BertForward(input_ids, attention_mask) ==
    [k \in 1..Len(input_ids) |->
        LET row == input_ids[k]
            context == SumSeq([q \in 1..Len(row) |-> row[q] * attention_mask[k][q]])
        IN  [p \in 1..Len(row) |-> <<row[p] + context, p>>]]

MaskedAllOnes(hidden, mask_row) == hidden

\* last_hidden_state * mask_expanded, for one row
Masked(hidden, mask_row) ==
    [p \in 1..Len(hidden) |-> <<hidden[p][1] * mask_row[p], hidden[p][2] * mask_row[p]>>]

\* sum(1) of one row
SumRows(row) ==
    <<SumSeq([p \in 1..Len(row) |-> row[p][1]]), SumSeq([p \in 1..Len(row) |-> row[p][2]])>>

\* pooled / (norms + 1e-10) of summed / (counts + 1e-10), in exact arithmetic:
\* the unit vector of a non-zero vector, written as the smallest integer
\* vector of its direction; dividing by a positive count keeps the direction,
\* and a zero sum stays zero
Normalized(summed, counts) ==
    IF counts = 0 \/ summed = <<0, 0>> THEN <<0, 0>>
    ELSE LET g == GCD(summed[1], summed[2])
         IN  <<summed[1] \div g, summed[2] \div g>>

\* Embeddings::embed from the encodings on
Embed(encodings) ==
    LET batch_size == Len(encodings)
        lens == {Len(encodings[k]) : k \in 1..batch_size} \cup {0}
        max_len == CHOOSE m \in lens : \A l \in lens : l <= m
        input_ids == [k \in 1..batch_size |-> Resize(encodings[k], max_len, 0)]
        attention_mask ==
            [k \in 1..batch_size |->
                Resize([j \in 1..Len(encodings[k]) |-> 1], max_len, 0)]
        last_hidden_state == BertForward(input_ids, attention_mask)
    IN  [k \in 1..batch_size |->
            Normalized(SumRows(Masked(last_hidden_state[k], attention_mask[k])),
                       SumSeq(attention_mask[k]))]

NoPool == [encodings |-> <<>>, done |-> FALSE]

InitPool ==
    /\ pool_in \in [encodings : EncodingBatches, done : {FALSE}]
    /\ pool_out = <<>>

InitNoPool ==
    /\ pool_in = NoPool
    /\ pool_out = <<>>

EmbedCall ==
    /\ pool_in.encodings # <<>>
    /\ ~pool_in.done
    /\ pool_out' = Embed(pool_in.encodings)
    /\ pool_in' = [pool_in EXCEPT !.done = TRUE]
    /\ UNCHANGED <<infer_vars, cron_vars, run_vars, lock_vars, sync_vars, ingest_vars,
                   chunk_vars, load_vars, pos_vars, mutex_vars>>

(***************************************************************************)
(* ai::run: position_offset and max_input_length                           *)
(***************************************************************************)
\* usize arithmetic: UsizeBits bits stand for the 64 of the target
UsizeModulus == 2 ^ UsizeBits

\* a + b and a - b on usize: a build with overflow checks panics where the
\* result leaves the range, a build without them wraps around
Arith(exact) ==
    IF exact \in 0..(UsizeModulus - 1)
    THEN {[panicked |-> FALSE, val |-> exact]}
    ELSE {[panicked |-> TRUE, val |-> 0],
          [panicked |-> FALSE, val |-> exact % UsizeModulus]}

PositionModelTypes == {"xlm-roberta", "camembert", "roberta", "bert"}

\* ai::run, lines 144-152
PositionOffset(config) ==
    IF config.model_type = "xlm-roberta"
       \/ config.model_type = "camembert"
       \/ config.model_type = "roberta"
    THEN Arith(config.pad_token_id + 1)
    ELSE {[panicked |-> FALSE, val |-> 0]}

\* ai::run, lines 166-172
MaxInputLengthOf(config, st_config, position_offset) ==
    IF st_config.some THEN {[panicked |-> FALSE, val |-> st_config.val]}
    ELSE Arith(config.max_position_embeddings - position_offset)

NoPos == [config |-> <<>>, st_config |-> None, done |-> FALSE]
NoPosOut == [panicked |-> FALSE, position_offset |-> 0, max_input_length |-> 0]

\* the configs enumerated have room for the two positions a roberta model
\* sets aside
InitPos ==
    /\ pos_in \in [config : [model_type : PositionModelTypes,
                             max_position_embeddings : 2..MaxPositions,
                             pad_token_id : 0..MaxPadTokenId],
                   st_config : {None} \cup {Some(n) : n \in 0..MaxSeqLength},
                   done : {FALSE}]
    /\ pos_out = NoPosOut

InitNoPos ==
    /\ pos_in = NoPos
    /\ pos_out = NoPosOut

\* ai::run from line 144 to line 173; a panic ends it
RunLimits ==
    /\ pos_in.config # <<>>
    /\ ~pos_in.done
    /\ \E off \in PositionOffset(pos_in.config) :
          IF off.panicked
          THEN pos_out' = [NoPosOut EXCEPT !.panicked = TRUE]
          ELSE \E len \in MaxInputLengthOf(pos_in.config, pos_in.st_config, off.val) :
                  pos_out' = [panicked |-> len.panicked,
                              position_offset |-> off.val,
                              max_input_length |-> len.val]
    /\ pos_in' = [pos_in EXCEPT !.done = TRUE]
    /\ UNCHANGED <<infer_vars, cron_vars, run_vars, lock_vars, sync_vars, ingest_vars,
                   chunk_vars, load_vars, pool_vars, mutex_vars>>

(***************************************************************************)
(* ChronJobs: the scheduler mutex and the mutex of the JobsCache map       *)
(***************************************************************************)
Mutexes == {"scheduler", "jobs"}

Lock(m) == <<"lock", m>>
Unlock(m) == <<"unlock", m>>

\* JobsCache::add_job, remove_job, set_jobs, get_jobs: the guard of the map
\* lives from jobs.lock().await to the end of the function
CacheScript == <<Lock("jobs"), Unlock("jobs")>>

\* ChronJobs::add_cron_job: the guard of the scheduler lives from
\* scheduler.lock().await to the end of the function
AddCronJobScript == <<Lock("scheduler"), Unlock("scheduler")>>

\* an add_job that would keep the guard of the map while it schedules the job
AddJobScriptNested ==
    <<Lock("jobs"), Lock("scheduler"), Unlock("scheduler"), Unlock("jobs")>>

\* ChronJobs::add_job: cache.add_job, then add_cron_job
AddJobScript == CacheScript \o AddCronJobScript

\* ChronJobs::remove_job: the scheduler guard is held across cache.remove_job
RemoveJobScript == <<Lock("scheduler")>> \o CacheScript \o <<Unlock("scheduler")>>

\* cache.get_jobs, the list_jobs of the callers
ListJobsScript == CacheScript

\* ChronJobs::start with n jobs in the file: set_jobs, add_cron_job per job,
\* then the scheduler is locked once more and started
RECURSIVE Repeat(_, _)
Repeat(script, n) == IF n = 0 THEN <<>> ELSE script \o Repeat(script, n - 1)
StartScript(n) ==
    CacheScript \o Repeat(AddCronJobScript, n) \o <<Lock("scheduler"), Unlock("scheduler")>>

Scripts ==
    {AddJobScript, RemoveJobScript, ListJobsScript}
        \cup {StartScript(n) : n \in 0..MaxStartJobs}

NoTask == [script |-> <<>>, pc |-> 0]
Busy(p) == task[p].pc # 0
Instr(p) == task[p].script[task[p].pc]
Waiting(p, m) == Busy(p) /\ Instr(p) = Lock(m)

\* after the instruction at pc: the next one, or the return of the call
Advance(p) ==
    IF task[p].pc = Len(task[p].script) THEN NoTask
    ELSE [task[p] EXCEPT !.pc = @ + 1]

\* a task calls add_job, remove_job, list_jobs or start
TaskCall(p) ==
    /\ ~Busy(p)
    /\ ntasks < MaxTasks
    /\ ntasks' = ntasks + 1
    /\ \E script \in Scripts : task' = [task EXCEPT ![p] = [script |-> script, pc |-> 1]]
    /\ UNCHANGED <<mutex, infer_vars, cron_vars, run_vars, lock_vars, sync_vars,
                   ingest_vars, chunk_vars, load_vars, pool_vars, pos_vars>>

\* lock().await returns: the mutex was free
TaskLock(p) ==
    /\ Busy(p)
    /\ \E m \in Mutexes :
          /\ Instr(p) = Lock(m)
          /\ mutex[m] = 0
          /\ mutex' = [mutex EXCEPT ![m] = p]
    /\ task' = [task EXCEPT ![p] = Advance(p)]
    /\ UNCHANGED <<ntasks, infer_vars, cron_vars, run_vars, lock_vars, sync_vars,
                   ingest_vars, chunk_vars, load_vars, pool_vars, pos_vars>>

\* the work under a guard is done and the guard goes out of scope
TaskUnlock(p) ==
    /\ Busy(p)
    /\ \E m \in Mutexes :
          /\ Instr(p) = Unlock(m)
          /\ mutex' = [mutex EXCEPT ![m] = 0]
    /\ task' = [task EXCEPT ![p] = Advance(p)]
    /\ UNCHANGED <<ntasks, infer_vars, cron_vars, run_vars, lock_vars, sync_vars,
                   ingest_vars, chunk_vars, load_vars, pool_vars, pos_vars>>

\* a step of the call fails and ? returns the error: save_jobs_to_file, the
\* registry lookup, the cron expression, sched.add, sched.remove, sched.start;
\* every guard the call holds is dropped. A call parked in lock().await is
\* not running and cannot fail there
TaskFail(p) ==
    /\ Busy(p)
    /\ Instr(p)[1] = "unlock" \/ mutex[Instr(p)[2]] = 0
    /\ task' = [task EXCEPT ![p] = NoTask]
    /\ mutex' = [m \in Mutexes |-> IF mutex[m] = p THEN 0 ELSE mutex[m]]
    /\ UNCHANGED <<ntasks, infer_vars, cron_vars, run_vars, lock_vars, sync_vars,
                   ingest_vars, chunk_vars, load_vars, pool_vars, pos_vars>>

InitTasks ==
    /\ task = [p \in Callers |-> NoTask]
    /\ mutex = [m \in Mutexes |-> 0]
    /\ ntasks = 0

\* what this section adds is not run
InitLate == InitNoPool /\ InitNoPos /\ InitTasks

\* the chunker and the model load are not run
InitMore ==
    /\ split_in = <<>>
    /\ split_out = <<>>
    /\ model_in = <<>>
    /\ model_out = <<>>
    /\ InitLate

InitInfer == cfg \in Configs /\ InferStart

InitCron ==
    /\ jobs = {}
    /\ jobs_file = [exists |-> FALSE, list |-> {}]
    /\ sched_jobs = {}
    /\ sched_started = FALSE
    /\ next_uuid = 0
    /\ last_add = NoAdd
    /\ started = "none"
    /\ restarts = 0
    /\ remove_ret = NoRemove

NextInfer ==
    \/ \E r \in Req : RunEmbedSingle(r)
    \/ \E r \in Req : RunEmbedBatch(r)
    \/ \E i \in Items : ItemAcquire(i)
    \/ \E i \in Items : ItemTokenized(i)
    \/ BatcherDispatch
    \/ BackendComplete
    \/ \E i \in Items : ItemReceive(i)
    \/ \E r \in Req : Respond(r)
    \/ \E r \in Req : Disconnect(r)

InitExt == InitRun /\ InitLock /\ InitNoSync /\ InitIngest /\ InitMore

InitInferSpec == InitInfer /\ InitCron /\ InitExt

SpecInfer == InitInferSpec /\ [][NextInfer]_vars

\* every handler is inside join_all of a batch of MaxItems inputs, with one
\* permit in the semaphore: each request has more items than permits
InitLive ==
    /\ cfg = Config(1, MaxBatchTokens, None, None, NoName)
    /\ permits = RunInfer(cfg).permits
    /\ req \in [Req -> {[pc |-> "running", kind |-> "batch", inputs |-> inputs,
                         truncate |-> FALSE, direction |-> "Right"] :
                            inputs \in [1..MaxItems -> Texts]}]
    /\ resp = [r \in Req |-> NoResp]
    /\ ipc = [i \in Items |-> "wait_permit"]
    /\ ires = [i \in Items |-> NoMsg]
    /\ chan = [i \in Items |-> NoMsg]
    /\ sends = [i \in Items |-> 0]
    /\ queue = <<>>
    /\ enq_counter = 0
    /\ inflight = <<>>
    /\ prev_batch = [first |-> 0, last |-> 0]
    /\ forward_errs = 0

\* the requests run to their answers: no new request, no disconnect
NextLive ==
    \/ \E i \in Items : ItemAcquire(i)
    \/ \E i \in Items : ItemTokenized(i)
    \/ BatcherDispatch
    \/ BackendComplete
    \/ \E i \in Items : ItemReceive(i)
    \/ \E r \in Req : Respond(r)

\* the semaphore hands its permits to the waiting futures in turn, so a
\* waiter that can be served again and again is served (strong fairness);
\* the runtime polls every ready future, the batcher and the backend task
\* run, and the backend answers each batch it was given (weak fairness)
FairLive ==
    /\ \A i \in Items : SF_vars(ItemAcquire(i))
    /\ \A i \in Items : WF_vars(ItemTokenized(i))
    /\ \A i \in Items : WF_vars(ItemReceive(i))
    /\ WF_vars(BatcherDispatch)
    /\ WF_vars(BackendComplete)
    /\ \A r \in Req : WF_vars(Respond(r))

InitLiveSpec == InitLive /\ InitCron /\ InitExt

SpecLive == InitLiveSpec /\ [][NextLive]_vars /\ FairLive

NextCron ==
    \/ \E job_type \in JobTypeArgs, cron \in CronArgs : AddJob(job_type, cron)
    \/ \E id \in Uuids : RemoveJob(id)
    \/ Start
    \/ Restart

InitCronSpec ==
    /\ cfg = Config(3, MaxInputLength, None, None, NoName)
    /\ InferStart
    /\ InitCron
    /\ InitExt

SpecCron == InitCronSpec /\ [][NextCron]_vars

NextRun ==
    \/ \E job_type \in JobTypeArgs, cron \in CronArgs : AddJob(job_type, cron)
    \/ \E id \in Uuids : RemoveJob(id)
    \/ Start
    \/ \E id \in Uuids : Fire(id)
    \/ \E id \in Uuids : EmbedderLock(id)
    \/ \E id \in Uuids : Finish(id)

SpecRun == InitCronSpec /\ [][NextRun]_vars

NextLock ==
    \/ \E p \in Callers, job_type \in RegistryKeys : CacheCallAdd(p, job_type)
    \/ \E p \in Callers, id \in Uuids : CacheCallRemove(p, id)
    \/ \E p \in Callers : CacheLock(p)
    \/ \E p \in Callers : CacheWriteBegin(p)
    \/ \E p \in Callers : CacheWriteEnd(p)
    \/ \E p \in Callers : CacheReturn(p)
    \/ CrashRestart

SpecLock == InitCronSpec /\ [][NextLock]_vars

NextSync ==
    \/ \E r \in Runners : SyncList(r)
    \/ \E r \in Runners : SyncLoad(r)
    \/ \E r \in Runners : SyncInsert(r)
    \/ \E r \in Runners : SyncDelete(r)

InitSyncSpec ==
    /\ cfg = Config(3, MaxInputLength, None, None, NoName)
    /\ InferStart
    /\ InitCron
    /\ InitRun
    /\ InitLock
    /\ InitSync
    /\ InitIngest
    /\ InitMore

SpecSync == InitSyncSpec /\ [][NextSync]_vars

\* the two jobs of the registry side by side: one sync_s3_files invocation
\* and the process_new_files invocation that holds the embedder
NextIngest ==
    \/ SyncList(1)
    \/ SyncLoad(1)
    \/ SyncInsert(1)
    \/ SyncDelete(1)
    \/ ProcStart
    \/ ProcPresign
    \/ ProcFetch
    \/ ProcChunk
    \/ ProcMark

InitIngestSpec ==
    /\ cfg = Config(3, MaxInputLength, None, None, NoName)
    /\ InferStart
    /\ InitCron
    /\ InitRun
    /\ InitLock
    /\ InitSync
    /\ schema = "unique"
    /\ InitIngest
    /\ InitMore

SpecIngest == InitIngestSpec /\ [][NextIngest]_vars

NextChunk == Split

InitChunkSpec ==
    /\ cfg = Config(3, MaxInputLength, None, None, NoName)
    /\ InferStart
    /\ InitCron
    /\ InitRun
    /\ InitLock
    /\ InitNoSync
    /\ InitIngest
    /\ InitChunk
    /\ model_in = <<>>
    /\ model_out = <<>>
    /\ InitLate

SpecChunk == InitChunkSpec /\ [][NextChunk]_vars

NextLoad == LoadModel

InitLoadSpec ==
    /\ cfg = Config(3, MaxInputLength, None, None, NoName)
    /\ InferStart
    /\ InitCron
    /\ InitRun
    /\ InitLock
    /\ InitNoSync
    /\ InitIngest
    /\ split_in = <<>>
    /\ split_out = <<>>
    /\ InitLoad
    /\ InitLate

SpecLoad == InitLoadSpec /\ [][NextLoad]_vars

NextPool == EmbedCall

InitPoolSpec ==
    /\ cfg = Config(3, MaxInputLength, None, None, NoName)
    /\ InferStart
    /\ InitCron
    /\ InitRun
    /\ InitLock
    /\ InitNoSync
    /\ InitIngest
    /\ split_in = <<>>
    /\ split_out = <<>>
    /\ model_in = <<>>
    /\ model_out = <<>>
    /\ InitPool
    /\ InitNoPos
    /\ InitTasks

SpecPool == InitPoolSpec /\ [][NextPool]_vars

NextPos == RunLimits

InitPosSpec ==
    /\ cfg = Config(3, MaxInputLength, None, None, NoName)
    /\ InferStart
    /\ InitCron
    /\ InitRun
    /\ InitLock
    /\ InitNoSync
    /\ InitIngest
    /\ split_in = <<>>
    /\ split_out = <<>>
    /\ model_in = <<>>
    /\ model_out = <<>>
    /\ InitNoPool
    /\ InitPos
    /\ InitTasks

SpecPos == InitPosSpec /\ [][NextPos]_vars

NextTasks ==
    \/ \E p \in Callers : TaskCall(p)
    \/ \E p \in Callers : TaskLock(p)
    \/ \E p \in Callers : TaskUnlock(p)
    \/ \E p \in Callers : TaskFail(p)

\* tokio's Mutex queues its waiters, so a waiter that can be served again
\* and again is served (strong fairness); a call that runs goes on running
FairTasks ==
    /\ \A p \in Callers : SF_vars(TaskLock(p))
    /\ \A p \in Callers : WF_vars(TaskUnlock(p))

SpecTasks == InitCronSpec /\ [][NextTasks]_vars /\ FairTasks

(***************************************************************************)
(* Properties of the embed path                                            *)
(***************************************************************************)
Entries == Range(queue) \cup Range(inflight)

\* C1: every batch handed to the backend has (longest entry) x (entries) <=
\* max_batch_tokens and, when the queue has a request limit, at most that
\* many entries.
C1_BatchWithinBudget ==
    inflight # <<>> =>
        /\ BatchMaxLen(inflight) * Len(inflight) <= cfg.max_batch_tokens
        /\ RunQueue(cfg).max_batch_requests.some =>
               Len(inflight) <= RunQueue(cfg).max_batch_requests.val

Holders == {i \in Items : HoldsPermit(i)}

\* C2: the requests that hold an admission permit - from acquisition, through
\* tokenization, queueing and inference, until the response is delivered -
\* are exactly the permits taken from the semaphore, at most
\* max_concurrent_requests.
C2_PermitsBounded ==
    /\ permits >= 0
    /\ Cardinality(Holders) = cfg.max_concurrent_requests - permits
    /\ Cardinality(Holders) <= cfg.max_concurrent_requests
    /\ \A e \in Entries : e.id \notin Closed => e.id \in Holders
    /\ \A i \in Items : (chan[i] # NoMsg /\ ~Finished(i) /\ i \notin Closed) => i \in Holders

\* all permits held, one item waiting for a permit, one answered but not yet
\* delivered
C2_Witness ==
    /\ cfg.max_concurrent_requests >= 2
    /\ permits = 0
    /\ \E i, j \in Items : ipc[i] = "wait_permit" /\ ipc[j] = "awaiting" /\ chan[j] # NoMsg

Increasing(s) == \A a, b \in 1..Len(s) : a < b => s[a].seq < s[b].seq

\* does entry e fit into the batch that is in flight
FitsInflight(e) ==
    Fill(<<e>>, inflight, BatchMaxLen(inflight), {}, RunQueue(cfg)).batch # inflight

\* C3: entries leave the queue in enqueue order: batches are increasing in
\* the insertion number, every batch starts after the batch before it ended,
\* and what is left in the queue was inserted after everything dispatched.
C3_FifoDispatch ==
    /\ Increasing(inflight \o queue)
    /\ \A e \in Entries : e.seq > prev_batch.last

\* a batch is in flight, the first queued entry does not fit into it and the
\* entry after it would
C3_Witness ==
    /\ inflight # <<>>
    /\ Len(queue) >= 2
    /\ queue[1].id \notin Closed /\ queue[2].id \notin Closed
    /\ ~FitsInflight(queue[1])
    /\ FitsInflight(queue[2])

\* the embedding of an item's own input, computed alone
ExpectedIds(i) ==
    Tokenize(req[i[1]].inputs[i[2]], req[i[1]].truncate, req[i[1]].direction, NoName,
             RunTokenization(cfg)).input_ids
ExpectedEmb(i) == SumSeq(ExpectedIds(i))

\* C4: a dispatched entry gets exactly one message on its own channel, and an
\* ok message carries the embedding of the entry's own input.
C4_OwnResponseOnce ==
    \A i \in Items :
        /\ sends[i] <= 1
        /\ chan[i].kind = "ok" => chan[i].emb = ExpectedEmb(i)
        /\ ipc[i] = "ok" => ires[i].emb = ExpectedEmb(i)
        /\ (ipc[i] = "awaiting" /\ \A e \in Entries : e.id # i) =>
               sends[i] = 1 /\ chan[i] # NoMsg

\* two entries of different length were answered by the same batch
C4_Witness ==
    \E i, j \in Items :
        /\ chan[i].kind = "ok" /\ chan[j].kind = "ok"
        /\ Len(ExpectedIds(i)) < Len(ExpectedIds(j))
        /\ {chan[i].seq, chan[j].seq} \subseteq prev_batch.first..prev_batch.last

\* C5: try_acquire_permit never waits: with no free permit the single-input
\* handler fails at once with Overloaded and changes nothing else; with a
\* free permit it takes exactly one.
C5_TryAcquireNeverWaits ==
    [][\A r \in Req :
          (req[r].pc = "idle" /\ req'[r].kind = "single") =>
              IF permits = 0
              THEN /\ req'[r].pc = "responded"
                   /\ resp'[r].kind = "Overloaded"
                   /\ UNCHANGED <<permits, ipc, ires, chan, queue, enq_counter, inflight>>
              ELSE /\ permits' = permits - 1
                   /\ ipc'[<<r, 1>>] = "tokenizing"
                   /\ resp'[r] = NoResp]_vars

\* scenario: two permits, both held, the single-input caller is refused
C5_Witness ==
    /\ cfg.max_concurrent_requests = 2
    /\ permits = 0
    /\ Cardinality(Holders) = 2
    /\ \E r \in Req : resp[r].kind = "Overloaded" /\ req[r].kind = "single"

\* C6: an entry whose caller is gone before dispatch is in no batch: a
\* dispatch hands over live entries only and discards the dropped ones it
\* passes; a disconnect returns every permit the request's items hold.
C6_CancelledNotDispatched ==
    [][/\ (inflight = <<>> /\ inflight' # <<>>) =>
              /\ \A e \in Range(inflight') : e.id \notin Closed
              /\ \A e \in Range(queue') : e.seq > inflight'[Len(inflight')].seq
       /\ \A r \in Req :
              (req[r].pc = "running" /\ req'[r].pc = "cancelled") =>
                  /\ \A i \in ItemsOf(r) : ipc'[i] \notin {"tokenizing", "awaiting"}
                  /\ permits' = cfg.max_concurrent_requests
                                - Cardinality({i \in Items :
                                                 ipc'[i] \in {"tokenizing", "awaiting"}})
                  /\ permits' >= permits]_vars

\* a queued entry was dropped, and the batch in flight was built past it
C6_Witness ==
    /\ inflight # <<>>
    /\ inflight[1].seq > prev_batch.last + 1
    /\ \E i \in Closed : \A e \in Entries : e.id # i
    /\ \A e \in Range(inflight) : e.id \notin Closed

\* tokens of an input before truncation: the resolved prompt prefix and the text
RawLen(i) == Len(RunDefaultPrompt(cfg).tokens) + Len(Encode(req[i[1]].inputs[i[2]]))

\* C7: every entry that reaches the queue has at most max_input_length
\* tokens: a longer input is cut to exactly max_input_length when truncate
\* is set and refused with TooLong, never enqueued, when it is not.
C7_InputLengthBound ==
    /\ \A e \in Entries :
          /\ Len(e.input_ids) >= 1
          /\ Len(e.input_ids) <= cfg.max_input_length
          /\ RawLen(e.id) <= cfg.max_input_length => Len(e.input_ids) = RawLen(e.id)
          /\ RawLen(e.id) > cfg.max_input_length =>
                 req[e.id[1]].truncate /\ Len(e.input_ids) = cfg.max_input_length
    /\ \A i \in Items :
          /\ ires[i].kind = "TooLong" <=>
                 (ipc[i] = "err" /\ RawLen(i) > cfg.max_input_length
                  /\ ~req[i[1]].truncate)
          /\ ipc[i] \in {"awaiting", "ok"} =>
                 (RawLen(i) <= cfg.max_input_length \/ req[i[1]].truncate)

\* one over-long input was truncated and enqueued, another was refused
C7_Witness ==
    /\ \E e \in Entries :
          RawLen(e.id) > cfg.max_input_length /\ Len(e.input_ids) = cfg.max_input_length
    /\ \E i \in Items : ires[i].kind = "TooLong"

\* C8: a successful batch response has one embedding per input, the k-th
\* being the embedding of the k-th input.
C8_BatchOutputOrder ==
    \A r \in Req :
        resp[r].kind = "ok" =>
            /\ Len(resp[r].embeddings) = Len(req[r].inputs)
            /\ \A k \in 1..Len(req[r].inputs) :
                   resp[r].embeddings[k] = ExpectedEmb(<<r, k>>)

\* a batch of two different inputs that cannot share a backend batch was
\* answered, the second input having been embedded before the first
C8_Witness ==
    \E r \in Req :
        /\ resp[r].kind = "ok"
        /\ req[r].kind = "batch"
        /\ Len(req[r].inputs) = 2
        /\ req[r].inputs[1] # req[r].inputs[2]
        /\ cfg.max_batch_tokens < 2 * MaxInputLength
        /\ Len(ExpectedIds(<<r, 1>>)) = MaxInputLength
        /\ ires[<<r, 1>>].seq > ires[<<r, 2>>].seq

\* C9: a failed forward pass sends InferenceFailure to every live entry of
\* the batch and to nothing else, leaves the queue as it was, and the
\* batcher can dispatch what is queued afterwards.
C9_ForwardFailureFailsBatch ==
    /\ [](forward_errs > 0 /\ inflight = <<>> /\ queue # <<>> => ENABLED BatcherDispatch)
    /\ [][forward_errs' = forward_errs + 1 =>
             /\ \A i \in Items :
                    IF i \in {e.id : e \in Range(inflight)} \ Closed
                    THEN /\ chan'[i] = ErrMsg("InferenceFailure")
                         /\ sends'[i] = sends[i] + 1
                    ELSE chan'[i] = chan[i] /\ sends'[i] = sends[i]
             /\ inflight' = <<>>
             /\ queue' = queue]_vars

\* both entries of a failed batch hold the error while a later entry has
\* been embedded
C9_Witness ==
    /\ forward_errs > 0
    /\ \E i, j, k \in Items :
          /\ i # j
          /\ chan[i] = ErrMsg("InferenceFailure")
          /\ chan[j] = ErrMsg("InferenceFailure")
          /\ chan[k].kind = "ok"
          /\ chan[k].seq > prev_batch.first - 1
          /\ chan[k].emb = ExpectedEmb(k)

\* C10: a job that add_job accepted in an earlier process and that was not
\* removed is, once start() has run in the restarted process, listed by
\* list_jobs and registered with the cron runner.
C10_JobsSurviveRestart ==
    (started # "none" /\ last_add.ok /\ last_add.life < restarts) =>
        /\ JobRecord(last_add) \in ListJobs
        /\ last_add.id \in sched_jobs

\* C11: every job record of the in-memory registry and of the jobs file has a
\* job_type that is a key of the job-function registry and a cron expression
\* that parses, also after add_job calls that returned an error.
C11_RecordsValid ==
    /\ \A j \in jobs : AddCronJobError(j.job_type, j.cron) = ""
    /\ \A rec \in jobs_file.list : AddCronJobError(rec.job_type, rec.cron) = ""

\* C15: start() drops the entries it cannot use and still succeeds: the cron
\* runner is started, the registry holds the usable entries of the file and
\* each of them is scheduled; a missing file gives an empty registry.
C15_StartDropsUnparseable ==
    [][(started = "none" /\ started' # "none") =>
          LET usable == {j \in LoadJobs(jobs_file) :
                           AddCronJobError(j.job_type, j.cron) = ""}
          IN  /\ started' = "ok"
              /\ sched_started'
              /\ jobs' = usable
              /\ {j.id : j \in usable} \subseteq sched_jobs'
              /\ ~jobs_file.exists => jobs' = {}]_vars

\* the job ids whose record has job type t
IdsOfType(t) == {id \in Uuids : inv[id].job_type = t}

\* C12: for each job type at most one invocation of its task is in flight
\* (running, or spawned and waiting to run): a fire that finds the previous
\* invocation unfinished is skipped.
C12_OneInvocationPerType ==
    \A t \in RegistryKeys : SumOver(InFlight, IdsOfType(t)) <= 1

JobIds(map) == {j.id : j \in map}

\* C16: remove_job is not refused because of the job's state: a scheduled
\* job leaves the cron runner while its running invocations go on; after a
\* successful return the id is in neither list_jobs() nor the jobs file, and
\* the cron runner fires it no more.
C16_RemoveAnyState ==
    /\ [](remove_ret.ok =>
             /\ UuidToString(remove_ret.id) \notin {rec.id : rec \in ListJobs}
             /\ UuidToString(remove_ret.id) \notin {rec.id : rec \in jobs_file.list}
             /\ remove_ret.id \notin sched_jobs
             /\ ~ENABLED Fire(remove_ret.id))
    /\ [][\A id \in Uuids :
             (remove_ret' # remove_ret /\ remove_ret'.id = id /\ id \in sched_jobs) =>
                 /\ id \notin sched_jobs'
                 /\ inv' = inv]_vars

\* a job was removed with success while one of its invocations was running
C16_Witness ==
    /\ remove_ret.ok
    /\ inv[remove_ret.id].run > 0
    /\ sched_started

\* C13: when a JobsCache call returns success, with any interleaving of
\* concurrent callers, jobs.json is complete and lists exactly the records
\* of the in-memory registry.
C13_FileMatchesRegistry ==
    [][\A p \in Callers :
          (call[p].pc # "done" /\ call'[p].pc = "done" /\ call'[p].ok) =>
              /\ ~writing'
              /\ jobs_file'.exists
              /\ jobs_file'.list = {JobRecord(j) : j \in jobs'}]_vars

\* a call that had to wait for the lock and the call it waited for both
\* returned success, and the registry holds two jobs
C13_Witness ==
    /\ \E p, q \in Callers :
          /\ p # q
          /\ call[p].pc = "done" /\ call[p].ok
          /\ call[q].pc = "done" /\ call[q].ok /\ call[q].waited
    /\ Cardinality(jobs) >= 2
    /\ jobs_file.list = {JobRecord(j) : j \in jobs}

\* C14: jobs.json is replaced atomically: whenever the process stops, the
\* next start reads the complete list from before the mutation in progress
\* or the complete list after it.
C14_AtomicRewrite ==
    boot.crashed => boot.loaded \in {boot.pre, boot.post}


\* the step with which run r returns Ok(())
SyncOk(r) == sync[r].pc # "done" /\ sync'[r].pc = "done" /\ sync'[r].ret = "ok"

\* C17: when a run with no other run active returns Ok over an unchanged
\* bucket, the filenames of the catalog are the keys of the bucket: every
\* object that had no row in the run's snapshot got one row with
\* processed = false, the rows of catalogued objects are as they were, and no
\* row names a missing object.
C17_SyncReconciles ==
    [][\A r \in Runners : (SyncOk(r) /\ sync[r].alone) =>
          /\ Filenames(catalog') = store
          /\ \A k \in store \ Filenames(sync[r].db_files) :
                Cardinality({f \in catalog' : f.filename = k}) = 1
          /\ \A f \in sync[r].db_files : f.filename \in store => f \in catalog'
          /\ \A f \in catalog' \ sync[r].db_files : ~f.processed]_vars

\* C18: the listing a run works from holds every object of the bucket, so a
\* run never deletes the row of an object that is still in the bucket.
C18_ListingComplete ==
    [][/\ \A r \in Runners : (sync[r].pc # "listed" /\ sync'[r].pc = "listed") =>
             Range(sync'[r].s3_files) = store
       /\ \A f \in catalog \ catalog' : f.filename \notin store]_vars

C20_OverlapOneRow ==
    /\ \A r \in Runners : sync[r].ret # "create_failed"
    /\ \A f, g \in catalog : f.filename = g.filename => f = g

ChunksOf(f) == {c \in chunks : c.file_id = f.file_id}

\* C21: in every state other readers of the database can see, a file has
\* either no chunk row or all its chunk rows together with processed = true.
C21_ChunksAllOrNone == \A f \in catalog : ChunksOf(f) # {} => f.processed

\* C22: a file whose processing failed after some chunks were inserted is
\* processed on a later tick: the chunks of the failed attempt are gone before
\* the retry, which does not fail on a (file_id, chunk_index) row.
C22_RetryCompletes ==
    /\ proc.pc \in {"presign", "fetch"} => ChunksOf(proc.new_files[proc.k]) = {}
    /\ proc.ret # "chunk_exists"

\* C23: a failure while processing one file does not end the tick: when
\* process_new_files returns, every file of its list has been attempted.
C23_TickNotAborted == proc.pc = "done" => proc.k >= Len(proc.new_files)

\* what a run that stopped had still to do: keys after the one in hand that
\* the snapshot lacks, and rows not yet visited that the listing lacks
SyncPending(me) ==
    LET failed == IF me.ret = "delete_error"
                  THEN {CHOOSE f \in me.todo : \A g \in me.todo : f.file_id <= g.file_id}
                  ELSE {}
    IN  {x \in (me.i + 1)..Len(me.s3_files) : ~InSnapshot(me.db_files, me.s3_files[x])}
          \cup {f.file_id : f \in {g \in me.todo \ failed :
                                      g.filename \notin Range(me.s3_files)}}

\* C24: a failure to insert or delete one catalog entry does not end the
\* reconcile: when the run returns, nothing it had to insert or delete is left.
C24_SyncNotAborted ==
    \A r \in Runners :
        (sync[r].pc = "done" /\ sync[r].ret \in {"create_error", "delete_error"}) =>
            SyncPending(sync[r]) = {}

C26_FetchRetries ==
    [][/\ proc'.attempt <= MaxRetries
       /\ (proc.pc = "fetch" /\ proc'.pc = "done"
             /\ proc'.ret \in {"parser_request_failed", "parser_status"}) =>
              proc'.attempt = MaxRetries]_vars

RECURSIVE Concat(_)
Concat(seqs) == IF Len(seqs) = 0 THEN <<>> ELSE Head(seqs) \o Concat(Tail(seqs))

\* C27: for a max_tokens that leaves room for a token beside the special
\* ones, every chunk split returns has, tokenized the way it is when it is
\* embedded (special tokens included), at most max_tokens tokens.
C27_ChunkWithinLimit ==
    (split_in.done /\ split_in.max_tokens > Len(TokenizerEncode(<<>>, split_in.special))) =>
        \A x \in 1..Len(split_out) :
            Len(TokenizerEncode(split_out[x], split_in.special)) <= split_in.max_tokens

\* C28: the chunks, joined in the order split returns them, hold the
\* characters of the input that are not white space: none dropped, none
\* twice, none out of order.
C28_SplitLossless ==
    split_in.done => SelectSeq(Concat(split_out), IsWord) = SelectSeq(split_in.text, IsWord)

\* the pooling the resolution order names for a model that is no classifier
PoolingByOrder(in) ==
    IF in.pooling.some
    THEN IF in.pooling.val = "Splade"
         THEN IF \E x \in 1..Len(in.config.architectures) :
                     EndsWith(in.config.architectures[x], "MaskedLM")
              THEN "Splade" ELSE "Error"
         ELSE in.pooling.val
    ELSE IF in.pool_config.some
    THEN IF in.pool_config.val.pooling_mode_cls_token THEN "Cls"
         ELSE IF in.pool_config.val.pooling_mode_mean_tokens THEN "Mean"
         ELSE IF in.pool_config.val.pooling_mode_lasttoken THEN "LastToken"
         ELSE "Error"
    ELSE IF Contains(ToLowercase(in.config.model_type), "bert") THEN "Cls"
    ELSE "Error"

\* C29: for a model that is not resolved as a classifier the pooling is the
\* explicit override when one is given (Splade only with an architecture that
\* ends in MaskedLM, else a load error); else the first true flag of
\* 1_Pooling/config.json in the order cls, mean, lasttoken (an error when
\* none is true); else CLS for a bert-family model type; else an error.
C29_PoolingOrder ==
    (model_in.done /\ model_out.backend_model_type.kind # "Classifier") =>
        LET want == PoolingByOrder(model_in)
            got == model_out.model_type
        IN  IF want = "Error" THEN got.kind = "Error"
            ELSE got.kind = "Embedding" /\ got.pool = want

C29_Witness ==
    /\ model_in.done
    /\ ~model_in.pooling.some
    /\ model_in.pool_config.some
    /\ ~model_in.pool_config.val.pooling_mode_cls_token
    /\ model_in.pool_config.val.pooling_mode_mean_tokens
    /\ model_in.pool_config.val.pooling_mode_lasttoken
    /\ model_out.model_type = LoadOk("Embedding", "Mean")

\* C30: a model is resolved as Classifier or Reranker exactly when some
\* architecture ends with "Classification" and a label map is present
\* (Classifier when id2label has more than one entry, Reranker otherwise);
\* without label maps the architecture does not count and the model is
\* resolved as an embedding model or by the pooling rules, not as a failure
\* of the label maps.
C30_ClassifierRule ==
    model_in.done =>
        LET config == model_in.config
            counts == /\ \E x \in 1..Len(config.architectures) :
                            EndsWith(config.architectures[x], "Classification")
                      /\ (config.id2label.some \/ config.label2id.some)
            got == model_out.model_type
        IN  /\ got.kind \in {"Classifier", "Reranker"} <=> counts
            /\ got.kind = "Classifier" => (config.id2label.some /\ config.id2label.val > 1)
            /\ got.err \notin {"config.json does not contain id2label",
                               "config.json does not contain label2id"}

\* C31: an empty batch is answered 400, a batch longer than
\* max_client_batch_size 413 and a request refused a permit 429, and a request
\* failing validation has acquired no permit and tokenized no input
C31_ValidationStatuses ==
    \A r \in Req :
        req[r].pc = "responded" =>
            /\ resp[r].kind = "EmptyBatch" => StatusCode(resp[r]) = 400
            /\ resp[r].kind = "BatchTooLarge" => StatusCode(resp[r]) = 413
            /\ resp[r].kind = "Overloaded" => StatusCode(resp[r]) = 429
            /\ resp[r].kind \in {"EmptyBatch", "BatchTooLarge"} =>
                   \A i \in Items : i[1] = r => ipc[i] = "none"

\* the part of C31 the handler keeps: validation comes before any permit and
\* any tokenization, and a refused permit is answered 429
C31_ValidationFirst ==
    \A r \in Req :
        req[r].pc = "responded" =>
            /\ resp[r].kind = "Overloaded" => StatusCode(resp[r]) = 429
            /\ resp[r].kind \in {"EmptyBatch", "BatchTooLarge"} =>
                   \A i \in Items : i[1] = r => ipc[i] = "none"

\* no request is in flight: every handler is idle, has answered or was dropped
Quiescent == \A r \in Req : req[r].pc # "running"

\* C36: a permit is released on every way a request can end (success,
\* tokenization error, enqueue error, inference error, cancellation): when no
\* request is in flight the free permits are max_concurrent_requests again
C36_PermitsRestored == Quiescent => permits = cfg.max_concurrent_requests

\* a request was answered with an error of an item and another was cancelled
\* while it held a permit
C36_Witness ==
    /\ Quiescent
    /\ permits = cfg.max_concurrent_requests
    /\ \E r, q \in Req :
          /\ req[r].pc = "cancelled"
          /\ \E i \in ItemsOf(r) : ipc[i] = "dropped" /\ chan[i] # NoMsg
          /\ req[q].pc = "responded"
          /\ resp[q].kind \in {"EmptyInput", "InferenceFailure"}

\* C37: a batch request with more items than max_concurrent_requests
\* completes, also when several such requests run at once: every item gets a
\* permit in the end, since a permit holder finishes and releases its permit
\* without waiting for another item, the backend answering every batch
C37_BatchCompletes ==
    \A r \in Req :
        (req[r].pc = "running" /\ Len(req[r].inputs) > cfg.max_concurrent_requests)
            ~> (req[r].pc = "responded")

\* all requests, each with more items than permits, were answered with
\* their embeddings
C37_Witness ==
    \A r \in Req :
        /\ Len(req[r].inputs) > cfg.max_concurrent_requests
        /\ req[r].pc = "responded"
        /\ resp[r].kind = "ok"
        /\ Len(resp[r].embeddings) = Len(req[r].inputs)

(***************************************************************************)
(* Properties of the scheduler's locking                                   *)
(***************************************************************************)
\* C38: concurrent add_job, remove_job, list_jobs and start calls cannot
\* deadlock on the two mutexes: no call waits for the scheduler while it
\* holds the guard of the jobs map, and every call returns in the end
C38_NoDeadlock ==
    /\ [](\A p \in Callers : ~(mutex["jobs"] = p /\ Waiting(p, "scheduler")))
    /\ \A p \in Callers : Busy(p) ~> ~Busy(p)

\* a remove_job holds the scheduler and waits for the jobs map while another
\* call holds the map
C38_Witness ==
    \E p, q \in Callers :
        /\ mutex["scheduler"] = p
        /\ Waiting(p, "jobs")
        /\ mutex["jobs"] = q
        /\ q # p

\* C39: after any sequence of start, add_job and remove_job calls, failed
\* ones included, the job ids that list_jobs() returns are the job ids
\* registered in the cron runner
C39_ListMatchesRunner ==
    {rec.id : rec \in ListJobs} = {UuidToString(id) : id \in sched_jobs}

\* the rows of the files table that await ingestion
UnprocessedIds == {f.file_id : f \in {g \in catalog : ~g.processed}}

\* C40: when the text of an unprocessed file yields no chunks, nothing is
\* written for the file (no chunk row, processed stays false) and the loop
\* goes on to the next file; the file is selected again by every later tick
\* and, when its turn comes, fetched from the parser again
C40_EmptyFileRetried ==
    /\ [][(proc.pc = "fetch" /\ proc'.pc \notin {"fetch", "chunk"}
                             /\ proc'.ret \in {"none", "ok"}) =>
             /\ chunks' = chunks
             /\ catalog' = catalog
             /\ proc'.k = proc.k + 1
             /\ proc'.pc = IF proc.k < Len(proc.new_files) THEN "presign" ELSE "done"
             /\ proc'.new_files = proc.new_files]_vars
    /\ [][(nticks' = nticks + 1 /\ proc'.ret # "load_error") =>
             \A id \in proc.skipped \cap UnprocessedIds :
                 \E x \in 1..Len(proc'.new_files) : proc'.new_files[x].file_id = id]_vars
    /\ [][(proc.pc = "presign" /\ proc' # proc /\ proc'.ret = "none") =>
             proc'.pc = "fetch" /\ proc'.k = proc.k]_vars

\* the second tick fetches a file whose text gave no chunk at the first
C40_Witness ==
    /\ nticks = 2
    /\ proc.pc = "fetch"
    /\ proc.new_files[proc.k].file_id \in proc.skipped

(***************************************************************************)
(* Properties of Embeddings::embed                                         *)
(***************************************************************************)
\* C32: the vector returned for an input does not depend on the other
\* entries of its padded batch: the i-th result of embedding a list equals
\* the result of embedding its i-th entry alone
C32_BatchIndependent ==
    pool_in.done =>
        \A i \in 1..Len(pool_in.encodings) :
            pool_out[i] = Embed(<<pool_in.encodings[i]>>)[1]

C32_Witness ==
    /\ pool_in.done
    /\ \E i, j \in 1..Len(pool_in.encodings) :
          /\ Len(pool_in.encodings[i]) < Len(pool_in.encodings[j])
          /\ pool_out[i] = Embed(<<pool_in.encodings[i]>>)[1]
          /\ pool_out[i] # <<0, 0>>

(***************************************************************************)
(* Properties of the ingestion jobs and the embedder                       *)
(***************************************************************************)
\* process_new_files invocations that are past embedder.lock().await
EmbedderUsers ==
    SumOver([id \in Uuids |-> IF inv[id].job_type = "process_new_files"
                              THEN inv[id].run ELSE 0], Uuids)

\* C33: at most one process_new_files invocation uses the embedder at any
\* time: the lock is taken before process_new_files is called and held until
\* it has returned, so a second invocation waits for the first to finish
C33_OneEmbedderUser == EmbedderUsers <= 1

C33_Witness ==
    \E id, other \in Uuids :
        /\ inv[id].job_type = "process_new_files"
        /\ inv[id].run = 1
        /\ inv[other].job_type = "process_new_files"
        /\ inv[other].wait > 0

(***************************************************************************)
(* Properties of run's configuration arithmetic                            *)
(***************************************************************************)
\* C34: when the backend advertises a batch-size cap s, the max_batch_requests
\* handed to the queue is min(configured, s): s when the configured value is
\* larger or unset, the configured value when it is smaller
C34_EffectiveIsMin ==
    cfg.backend_max_batch_size.some =>
        RunQueue(cfg).max_batch_requests =
            Some(IF cfg.max_batch_requests.some
                 THEN Min(cfg.max_batch_requests.val, cfg.backend_max_batch_size.val)
                 ELSE cfg.backend_max_batch_size.val)

\* C35: position_offset is 2 for xlm-roberta, camembert and roberta and 0
\* otherwise, whatever pad_token_id is; without a sentence-transformers
\* config max_input_length is max_position_embeddings - position_offset, not
\* negative and not wrapped around; with one it is max_seq_length
C35_PositionOffset ==
    pos_in.done =>
        LET offset == IF pos_in.config.model_type \in {"xlm-roberta", "camembert", "roberta"}
                      THEN 2 ELSE 0
        IN  /\ ~pos_out.panicked
            /\ pos_out.position_offset = offset
            /\ pos_in.st_config.some => pos_out.max_input_length = pos_in.st_config.val
            /\ ~pos_in.st_config.some =>
                   /\ pos_in.config.max_position_embeddings - offset >= 0
                   /\ pos_out.max_input_length =
                          pos_in.config.max_position_embeddings - offset
====
